---------------------------- MODULE Spec2Model ----------------------------
(***************************************************************************)
(* Model of the Markdown-to-Word core: the normalizer (utils.py), the two  *)
(* block splitters (parser.py, converter.py), the table cell splitter and  *)
(* the inline tokenizer (parser.py), the math rewrite (handlers.py) and    *)
(* the block loop of convert_text (converter.py).                          *)
(*                                                                         *)
(* Text is a sequence of one-character strings; a line is a text without   *)
(* "\n".  Python's str methods and the regular expressions of the source   *)
(* are operators over such sequences.                                      *)
(***************************************************************************)
EXTENDS Naturals, Integers, Sequences, FiniteSets, TLC

(***************************************************************************)
(* Bounds of the model                                                     *)
(***************************************************************************)
MaxNormLines == 4

MaxSplitLines == 3

MaxFormulas == 3

MaxBlocks == 8

(***************************************************************************)
(* Python str primitives                                                   *)
(***************************************************************************)
NL == "\n"

CR == "\r"

IsSpace(c) == c \in {" ", "\t", "\n", "\r"}

IsDigit(c) == c \in {"0", "1", "2", "3", "4", "5", "6", "7", "8", "9"}

Slice(s, a, b) == IF a > b THEN <<>> ELSE SubSeq(s, a, b)

\* s[k:] with a 0-based k
From(s, k) == Slice(s, k + 1, Len(s))

StartsWith(s, p) == Len(s) >= Len(p) /\ SubSeq(s, 1, Len(p)) = p

EndsWith(s, p) == Len(s) >= Len(p) /\ SubSeq(s, Len(s) - Len(p) + 1, Len(s)) = p

Contains(s, c) == \E k \in 1..Len(s) : s[k] = c

RECURSIVE LStrip(_)
LStrip(s) == IF s # <<>> /\ IsSpace(Head(s)) THEN LStrip(Tail(s)) ELSE s

RECURSIVE RStrip(_)
RStrip(s) ==
    IF s # <<>> /\ IsSpace(s[Len(s)]) THEN RStrip(SubSeq(s, 1, Len(s) - 1)) ELSE s

Strip(s) == RStrip(LStrip(s))

\* str.split(sep) for a one-character separator
RECURSIVE SplitAcc(_, _, _, _)
SplitAcc(s, sep, cur, acc) ==
    IF s = <<>> THEN Append(acc, cur)
    ELSE IF Head(s) = sep THEN SplitAcc(Tail(s), sep, <<>>, Append(acc, cur))
    ELSE SplitAcc(Tail(s), sep, Append(cur, Head(s)), acc)

Split(s, sep) == SplitAcc(s, sep, <<>>, <<>>)

\* sep.join(parts)
RECURSIVE Join(_, _)
Join(parts, sep) ==
    IF parts = <<>> THEN <<>>
    ELSE IF Len(parts) = 1 THEN parts[1]
    ELSE parts[1] \o sep \o Join(Tail(parts), sep)

\* str.replace(c, r) for a one-character c
RECURSIVE ReplaceChar(_, _, _)
ReplaceChar(s, c, r) ==
    IF s = <<>> THEN <<>>
    ELSE (IF Head(s) = c THEN r ELSE <<Head(s)>>) \o ReplaceChar(Tail(s), c, r)

\* str.replace('\r\n', '\n')
RECURSIVE ReplaceCRLF(_)
ReplaceCRLF(s) ==
    IF s = <<>> THEN <<>>
    ELSE IF Len(s) >= 2 /\ s[1] = CR /\ s[2] = NL THEN <<NL>> \o ReplaceCRLF(From(s, 2))
    ELSE <<Head(s)>> \o ReplaceCRLF(Tail(s))

\* number of leading characters of s that satisfy membership in cs
RECURSIVE RunLen(_, _)
RunLen(s, cs) == IF s # <<>> /\ Head(s) \in cs THEN 1 + RunLen(Tail(s), cs) ELSE 0

AllIn(s, cs) == \A k \in 1..Len(s) : s[k] \in cs

SpaceChars == {" ", "\t", "\n", "\r"}

\* all sequences over S of length 0..n
SeqsUpTo(S, n) == UNION {[1..k -> S] : k \in 0..n}

(***************************************************************************)
(* utils.py: the line classifier and the normalizer                        *)
(***************************************************************************)

\* re.match(r'^#{1,6}\s+', line)
IsHeadingLine(line) ==
    LET n == RunLen(line, {"#"})
    IN n >= 1 /\ n <= 6 /\ Len(line) > n /\ IsSpace(line[n + 1])

\* re.match(r'^[-*_]{3,}$', stripped)
IsHrStripped(stripped) == Len(stripped) >= 3 /\ AllIn(stripped, {"-", "*", "_"})

\* re.match(r'^[-*+]\s', line)
IsBulletLine(line) == Len(line) >= 2 /\ line[1] \in {"-", "*", "+"} /\ IsSpace(line[2])

\* re.match(r'^\d+\.\s', line)
IsNumberLine(line) ==
    LET n == RunLen(line, {"0", "1", "2", "3", "4", "5", "6", "7", "8", "9"})
    IN n >= 1 /\ Len(line) >= n + 2 /\ line[n + 1] = "." /\ IsSpace(line[n + 2])

\* the backtick character (written as a name: the lexer reserves the character itself)
BT == "BT"

Fence == <<BT, BT, BT>>

Dollars == <<"$", "$">>

_get_line_type(line, in_code_block, in_table) ==
    LET stripped == Strip(line)
    IN IF stripped = <<>> THEN "empty"
       ELSE IF in_code_block THEN "code"
       ELSE IF StartsWith(line, Fence) THEN "code"
       ELSE IF IsHeadingLine(line) THEN "heading"
       ELSE IF StartsWith(line, <<"|">>) \/ (EndsWith(line, <<"|">>) /\ Contains(line, "|"))
            THEN "table"
       ELSE IF IsHrStripped(stripped) THEN "hr"
       ELSE IF IsBulletLine(line) THEN "list"
       ELSE IF IsNumberLine(line) THEN "list"
       ELSE IF StartsWith(stripped, Dollars) THEN "math"
       ELSE IF StartsWith(line, <<">">>) THEN "quote"
       ELSE "text"

_should_add_blank_line(prev_type, current_type) ==
    IF prev_type \in {"start", "empty"} THEN FALSE
    ELSE IF current_type = "empty" THEN FALSE
    ELSE IF current_type = "heading" THEN prev_type # "heading"
    ELSE IF current_type = "code" /\ prev_type # "code" THEN TRUE
    ELSE IF current_type = "table" /\ prev_type # "table" THEN TRUE
    ELSE IF current_type = "list" /\ prev_type # "list" THEN TRUE
    ELSE IF current_type = "math" /\ prev_type # "math" THEN TRUE
    ELSE IF current_type = "quote" /\ prev_type # "quote" THEN TRUE
    ELSE IF current_type = "hr" THEN TRUE
    ELSE FALSE

\* the fence parity loop of _should_add_blank_after: in_code after lines[0..index-1]
RECURSIVE FenceParity(_, _)
FenceParity(lines, n) ==
    IF n = 0 THEN FALSE
    ELSE IF StartsWith(lines[n], Fence) THEN ~FenceParity(lines, n - 1)
    ELSE FenceParity(lines, n - 1)

\* _should_add_blank_after without its heading branch
_should_add_blank_after_NoHeading(current_type, index, lines) ==
    IF index >= Len(lines) THEN FALSE
    ELSE IF Strip(lines[index + 1]) = <<>> THEN FALSE
    ELSE IF current_type = "code" /\ StartsWith(lines[index], Fence)
            /\ ~FenceParity(lines, index - 1) THEN TRUE
    ELSE IF current_type = "hr" THEN TRUE
    ELSE FALSE

\* index is the 1-based position of the current line
_should_add_blank_after(current_type, index, lines) ==
    IF index >= Len(lines) THEN FALSE
    ELSE IF Strip(lines[index + 1]) = <<>> THEN FALSE
    ELSE IF current_type = "heading" THEN TRUE
    ELSE IF current_type = "code" /\ StartsWith(lines[index], Fence)
            /\ ~FenceParity(lines, index - 1) THEN TRUE
    ELSE IF current_type = "hr" THEN TRUE
    ELSE FALSE

\* the text without the final substitution
CollapseNewlines_Skipped(s) == s

\* re.sub(r'\n{3,}', '\n\n', text)
RECURSIVE CollapseNewlines(_)
CollapseNewlines(s) ==
    IF s = <<>> THEN <<>>
    ELSE LET n == RunLen(s, {NL})
         IN IF n >= 3 THEN <<NL, NL>> \o CollapseNewlines(From(s, n))
            ELSE IF n >= 1 THEN SubSeq(s, 1, n) \o CollapseNewlines(From(s, n))
            ELSE <<Head(s)>> \o CollapseNewlines(Tail(s))

\* the for loop of normalize_markdown, i is the 1-based index of the line
RECURSIVE NormLoop(_, _, _, _, _, _)
NormLoop(lines, i, result, in_code_block, in_table, prev_line_type) ==
    IF i > Len(lines) THEN result
    ELSE
      LET line == lines[i]
          current_type == _get_line_type(line, in_code_block, in_table)
          in_code2 == IF StartsWith(line, Fence) THEN ~in_code_block ELSE in_code_block
          in_table2 == IF current_type = "table" THEN TRUE
                       ELSE IF in_table /\ current_type \notin {"table", "empty"} THEN FALSE
                       ELSE in_table
          need_blank_before == _should_add_blank_line(prev_line_type, current_type)
          r1 == IF need_blank_before /\ result # <<>> /\ Strip(result[Len(result)]) # <<>>
                THEN Append(result, <<>>) ELSE result
          r2 == Append(r1, line)
          need_blank_after == _should_add_blank_after(current_type, i, lines)
          r3 == IF need_blank_after /\ i + 1 <= Len(lines) /\ Strip(lines[i + 1]) # <<>>
                THEN Append(r2, <<>>) ELSE r2
          prev2 == IF Strip(line) # <<>> THEN current_type ELSE "empty"
      IN NormLoop(lines, i + 1, r3, in_code2, in_table2, prev2)

\* re.sub(r'\n{3,}', '\n', text): the collapse leaves one newline, not two
RECURSIVE CollapseToOne(_)
CollapseToOne(s) ==
    IF s = <<>> THEN <<>>
    ELSE LET n == RunLen(s, {NL})
         IN IF n >= 3 THEN <<NL>> \o CollapseToOne(From(s, n))
            ELSE IF n >= 1 THEN SubSeq(s, 1, n) \o CollapseToOne(From(s, n))
            ELSE <<Head(s)>> \o CollapseToOne(Tail(s))

\* normalize_markdown whose collapse joins the separated lines again
normalize_markdown_OneNewline(md) ==
    LET text == ReplaceChar(ReplaceCRLF(md), CR, <<NL>>)
        lines == Split(text, NL)
        result == NormLoop(lines, 1, <<>>, FALSE, FALSE, "start")
    IN CollapseToOne(Join(result, <<NL>>))

\* normalize_markdown whose loop starts at the second line
normalize_markdown_SkipFirst(md) ==
    LET text == ReplaceChar(ReplaceCRLF(md), CR, <<NL>>)
        lines == Split(text, NL)
        result == NormLoop(lines, 2, <<>>, FALSE, FALSE, "start")
    IN CollapseNewlines(Join(result, <<NL>>))

normalize_markdown(md) ==
    LET text == ReplaceChar(ReplaceCRLF(md), CR, <<NL>>)
        lines == Split(text, NL)
        result == NormLoop(lines, 1, <<>>, FALSE, FALSE, "start")
    IN CollapseNewlines(Join(result, <<NL>>))

\* the lines the normalizer is exercised on, one or more of every line kind
NormLineSet ==
    { <<>>, <<" ">>, <<"a">>, <<"#", " ", "h">>, <<BT, BT, BT>>,
      <<"|", "a", "|">>, <<"-", " ", "x">>, <<"1", ".", " ", "x">>,
      <<"$", "$">>, <<">", "q">>, <<"-", "-", "-">>, <<"a", "\r">> }

NormInputs == { Join(ls, <<NL>>) : ls \in SeqsUpTo(NormLineSet, MaxNormLines) }

(***************************************************************************)
(* Regular expressions and line predicates shared by the block splitters   *)
(* (parser.py parse_markdown, converter.py _split_into_blocks)             *)
(***************************************************************************)

\* lines[k] for a 0-based k
At(lines, k) == lines[k + 1]

\* lines[a:b] for 0-based a, b
Lines(lines, a, b) == Slice(lines, a + 1, b)

\* smallest 0-based index k >= j in hits (the indexes of the lines that end the scan),
\* or len(lines) when there is none
FirstFrom(lines, j, hits) ==
    IF \E k \in hits : k >= j
    THEN CHOOSE k \in hits : k >= j /\ \A m \in hits : m >= j => k <= m
    ELSE Len(lines)

\* re.match(r'^[\s\|\:\-]+$', s)
IsSepRow(s) == s # <<>> /\ AllIn(s, SpaceChars \cup {"|", ":", "-"})

\* re.match(r'^\$\$(.+?)\$\$', s): 1-based position of the last character of
\* the match, 0 when there is no match
SingleMathEnd(s) ==
    IF StartsWith(s, Dollars) /\ \E e \in 5..Len(s) : s[e - 1] = "$" /\ s[e] = "$"
    THEN CHOOSE e \in 5..Len(s) :
            /\ s[e - 1] = "$" /\ s[e] = "$"
            /\ \A d \in 5..(e - 1) : ~(s[d - 1] = "$" /\ s[d] = "$")
    ELSE 0

\* re.match(r'^[\s]*[\*\-\+]\s', line)
IsBulletItem(line) ==
    LET n == RunLen(line, SpaceChars)
    IN Len(line) >= n + 2 /\ line[n + 1] \in {"*", "-", "+"} /\ IsSpace(line[n + 2])

\* re.match(r'^[\s]*\d+\.\s', line)
IsNumberItem(line) ==
    LET n == RunLen(line, SpaceChars)
        d == RunLen(From(line, n), {"0", "1", "2", "3", "4", "5", "6", "7", "8", "9"})
    IN d >= 1 /\ Len(line) >= n + d + 2 /\ line[n + d + 1] = "." /\ IsSpace(line[n + d + 2])

\* re.match(r'^[\s]*[-\*_]{3,}[\s]*$', line)
IsHrLine(line) ==
    LET t == Strip(line) IN Len(t) >= 3 /\ AllIn(t, {"-", "*", "_"})

\* 1-based position of the first c in s at or after position a, 0 when there is none
IndexFrom(s, c, a) ==
    IF \E k \in a..Len(s) : s[k] = c
    THEN CHOOSE k \in a..Len(s) : s[k] = c /\ \A m \in a..(k - 1) : s[m] # c
    ELSE 0

\* re.match(r'^!\[([^\]]*)\]\(([^\)]+)\)$', s): <<alt, url>>, or <<>> when no match
ImageLineMatch(s) ==
    IF ~StartsWith(s, <<"!", "[">>) THEN <<>>
    ELSE LET rb == IndexFrom(s, "]", 3)
         IN IF rb = 0 \/ Len(s) < rb + 3 \/ s[rb + 1] # "(" THEN <<>>
            ELSE LET rp == IndexFrom(s, ")", rb + 2)
                 IN IF rp = 0 \/ rp = rb + 2 \/ rp # Len(s) THEN <<>>
                    ELSE <<Slice(s, 3, rb - 1), Slice(s, rb + 2, rp - 1)>>

\* re.match(r'^\[([ xX])\]\s*(.*)', text): <<mark, rest>>, or <<>> when no match
TaskMatch(text) ==
    IF Len(text) >= 3 /\ text[1] = "[" /\ text[2] \in {" ", "x", "X"} /\ text[3] = "]"
    THEN <<text[2], LStrip(From(text, 3))>>
    ELSE <<>>

\* the item record built from the text of a list line (task sub-grammar)
ItemOf(text) ==
    LET tm == TaskMatch(text)
    IN IF tm # <<>>
       THEN [type |-> "task", checked |-> (tm[1] \in {"x", "X"}), text |-> tm[2]]
       ELSE [type |-> "item", checked |-> FALSE, text |-> text]

(***************************************************************************)
(* parser.py: parse_markdown, one iteration of the while loop per trigger  *)
(***************************************************************************)

\* the if chain of parse_markdown: the first trigger that fires on lines[i]
PM_Trigger(lines, i) ==
    LET line == At(lines, i)
    IN IF Strip(line) = <<>> THEN "blank"
       ELSE IF StartsWith(Strip(line), Fence) THEN "code"
       ELSE IF StartsWith(Strip(line), Dollars) THEN "math"
       ELSE IF StartsWith(line, <<"#">>) THEN "heading"
       ELSE IF Contains(line, "|") /\ i + 1 < Len(lines)
               /\ IsSepRow(Strip(At(lines, i + 1))) THEN "table"
       ELSE IF StartsWith(line, <<">">>) THEN "quote"
       ELSE IF IsBulletItem(line) THEN "bullet"
       ELSE IF IsNumberItem(line) THEN "number"
       ELSE IF IsHrLine(line) THEN "hr"
       ELSE IF ImageLineMatch(Strip(line)) # <<>> THEN "image"
       ELSE "paragraph"

PMBlock(t, c, lv, lang) == [type |-> t, content |-> c, level |-> lv, language |-> lang]

\* lines 192-201: the fenced code branch
PM_Code(lines, i) ==
    LET lang == Strip(From(Strip(At(lines, i)), 3))
        j == FirstFrom(lines, i + 1, {h \in 0..(Len(lines) - 1) : LET l == At(lines, h) IN StartsWith(Strip(l), Fence)})
    IN [block |-> PMBlock("code_block", Join(Lines(lines, i + 1, j), <<NL>>), 0, lang),
        i |-> j + 1, lines |-> lines]

\* lines 204-230: the block math branch
PM_Math(lines, i) ==
    LET s == Strip(At(lines, i))
        e == SingleMathEnd(s)
    IN IF e > 0
       THEN LET formula == Strip(Slice(s, 3, e - 2))
                remaining == Strip(From(s, e))
            IN IF StartsWith(remaining, Dollars)
               THEN [block |-> PMBlock("math_block", formula, 0, <<>>), i |-> i,
                     lines |-> [lines EXCEPT ![i + 1] = remaining]]
               ELSE [block |-> PMBlock("math_block", formula, 0, <<>>), i |-> i + 1,
                     lines |-> lines]
       ELSE LET j == FirstFrom(lines, i + 1, {h \in 0..(Len(lines) - 1) : LET l == At(lines, h) IN EndsWith(Strip(l), Dollars)})
                body == Lines(lines, i + 1, j)
                last == IF j < Len(lines) THEN Strip(At(lines, j)) ELSE <<>>
                formula_lines == IF j < Len(lines) /\ last # Dollars
                                 THEN Append(body, Slice(last, 1, Len(last) - 2))
                                 ELSE body
            IN [block |-> PMBlock("math_block", Join(formula_lines, <<NL>>), 0, <<>>),
                i |-> j + 1, lines |-> lines]

Min(a, b) == IF a < b THEN a ELSE b

PMMaxHeading == 4

\* lines 233-238: the heading branch
PM_Heading(lines, i) ==
    LET line == At(lines, i)
        level == RunLen(line, {"#"})
    IN [block |-> PMBlock("heading", Strip(From(line, level)), Min(level, PMMaxHeading), <<>>),
        i |-> i + 1, lines |-> lines]

\* lines 241-247: the table branch
PM_Table(lines, i) ==
    LET j == FirstFrom(lines, i, {h \in 0..(Len(lines) - 1) : LET l == At(lines, h) IN ~Contains(l, "|")})
    IN [block |-> PMBlock("table", Join(Lines(lines, i, j), <<NL>>), 0, <<>>),
        i |-> j, lines |-> lines]

\* lines 250-256: the quote branch
PM_Quote(lines, i) ==
    LET j == FirstFrom(lines, i, {h \in 0..(Len(lines) - 1) : LET l == At(lines, h) IN ~StartsWith(l, <<">">>)})
        quote_lines == [k \in 1..(j - i) |-> Strip(Tail(At(lines, i + k - 1)))]
    IN [block |-> PMBlock("quote", Join(quote_lines, <<NL>>), 0, <<>>),
        i |-> j, lines |-> lines]

\* re.sub(r'^[\s]*[\*\-\+]\s*', '', line) on a line that matches the bullet trigger
BulletText(line) == LStrip(Tail(LStrip(line)))

\* lines 259-273: the unordered list branch
PM_Bullet(lines, i) ==
    LET j == FirstFrom(lines, i, {h \in 0..(Len(lines) - 1) : LET l == At(lines, h) IN ~IsBulletItem(l)})
        items == [k \in 1..(j - i) |->
                    LET it == ItemOf(BulletText(At(lines, i + k - 1)))
                    IN [type |-> it.type, checked |-> it.checked, text |-> it.text,
                        level |-> 0, has_level |-> FALSE]]
    IN [block |-> PMBlock("list", items, 0, <<>>), i |-> j, lines |-> lines]

\* re.match(r'^(\s*)(\d+)\.\s+(.*)$', line) on a line that matches the number
\* trigger: [indent, text]
NumberMatch(line) ==
    LET n == RunLen(line, SpaceChars)
        d == RunLen(From(line, n), {"0", "1", "2", "3", "4", "5", "6", "7", "8", "9"})
    IN [indent |-> n, text |-> LStrip(From(line, n + d + 1))]

\* lines 276-287: the ordered list branch
PM_Number(lines, i) ==
    LET j == FirstFrom(lines, i, {h \in 0..(Len(lines) - 1) : LET l == At(lines, h) IN ~IsNumberItem(l)})
        items == [k \in 1..(j - i) |->
                    LET m == NumberMatch(At(lines, i + k - 1))
                    IN [type |-> "item", checked |-> FALSE, text |-> m.text,
                        level |-> m.indent \div 2, has_level |-> TRUE]]
    IN [block |-> PMBlock("list", items, 1, <<>>), i |-> j, lines |-> lines]

\* lines 290-293: the horizontal rule branch
PM_Hr(lines, i) == [block |-> PMBlock("hr", <<>>, 0, <<>>), i |-> i + 1, lines |-> lines]

\* lines 296-300: the standalone image branch
PM_Image(lines, i) ==
    LET m == ImageLineMatch(Strip(At(lines, i)))
    IN [block |-> PMBlock("image", m[1], 0, m[2]), i |-> i + 1, lines |-> lines]

\* the break conditions of the paragraph loop, lines 306-313
PM_ParaStop(lines, k) ==
    LET l == At(lines, k)
    IN \/ Strip(l) = <<>>
       \/ StartsWith(l, <<"#">>)
       \/ StartsWith(Strip(l), Fence)
       \/ StartsWith(Strip(l), Dollars)
       \/ StartsWith(l, <<">">>)
       \/ IsBulletItem(l)
       \/ IsNumberItem(l)
       \/ IsHrLine(l)
       \/ (Contains(l, "|") /\ k + 1 < Len(lines) /\ IsSepRow(At(lines, k + 1)))

\* lines 303-318: the paragraph branch; no block is appended when para_lines is empty
PM_Paragraph(lines, i) ==
    LET j == IF \E k \in i..(Len(lines) - 1) : PM_ParaStop(lines, k)
             THEN CHOOSE k \in i..(Len(lines) - 1) :
                     PM_ParaStop(lines, k) /\ \A m \in i..(k - 1) : ~PM_ParaStop(lines, m)
             ELSE Len(lines)
    IN [block |-> PMBlock("paragraph", Join(Lines(lines, i, j), <<" ">>), 0, <<>>),
        i |-> j, lines |-> lines]

\* the lines the splitters are exercised on: every trigger, and the fences
SplitLineSet ==
    { <<>>, <<" ">>, <<"a">>, <<"#", " ", "T">>, <<BT, BT, BT>>,
      <<"a", "|", "b">>, <<"-", "-", "-">>, <<"$", "$">>,
      <<"$", "$", "x", "$", "$">>,
      <<"$", "$", "x", "$", "$", "$", "$", "y", "$", "$">>,
      <<">", "q">>, <<"-", " ", "a">>, <<"1", ".", " ", "a">>,
      <<"!", "[", "]", "(", "u", ")">> }

\* the formula bodies of the lines that hold several formulas
FormulaSet == { <<"x", "^", "2">>, <<"y", "^", "2">>, <<"z">> }

\* $$f1$$$$f2$$...$$fk$$
RECURSIVE FormulaLine(_)
FormulaLine(fs) ==
    IF fs = <<>> THEN <<>> ELSE Dollars \o Head(fs) \o Dollars \o FormulaLine(Tail(fs))

FormulaSeqs == SeqsUpTo(FormulaSet, MaxFormulas) \ {<<>>}

\* heading lines of 1 to 7 hash signs, alone and before a line of another kind
Hashes(n) == [k \in 1..n |-> "#"]

HeadingLines ==
    { Hashes(n) \o rest : n \in 1..7,
                          rest \in { <<" ", "T">>, <<"T", " ">>, <<" ", "a", "|", "b">> } }

HeadingInputs ==
    HeadingLines
    \cup { h \o <<NL>> \o l : h \in HeadingLines,
                              l \in { <<"a">>, <<"-", "-", "-">>, <<"|", "-", "|">> } }

\* list lines of both syntaxes, indented by 0, 1, 2 and 4 spaces
ListLines ==
    { indent \o marker \o <<" ", "a">> :
        indent \in { <<>>, <<" ">>, <<" ", " ">>, <<" ", " ", " ", " ">> },
        marker \in { <<"-">>, <<"1", ".">> } }

ListInputs == { Join(ls, <<NL>>) : ls \in SeqsUpTo(ListLines, MaxSplitLines) }

\* formulas over several lines, with and without text on the '$$' lines
MultiLineMath ==
    { Join(<<open>> \o mid \o <<close>>, <<NL>>) :
        open \in { <<"$", "$">>, <<"$", "$", "x">>, <<"$", "$", " ", "x">> },
        mid \in { <<>>, <<<<"a">>>> },
        close \in { <<"$", "$">>, <<"y", "$", "$">>, <<"y", " ", "$", "$">> } }

SplitExamples == HeadingInputs \cup ListInputs \cup MultiLineMath

SplitInputs ==
    { Join(ls, <<NL>>) : ls \in SeqsUpTo(SplitLineSet, MaxSplitLines) }
        \cup { FormulaLine(fs) : fs \in FormulaSeqs }
        \cup SplitExamples

(***************************************************************************)
(* converter.py: _split_into_blocks and its _extract_* helpers             *)
(***************************************************************************)

\* the if chain of _split_into_blocks: the first trigger that fires on lines[i]
SB_Trigger(lines, i) ==
    LET line == At(lines, i)
    IN IF Strip(line) = <<>> THEN "blank"
       ELSE IF StartsWith(Strip(line), Fence) THEN "code"
       ELSE IF Contains(line, "|") /\ i + 1 < Len(lines) /\ IsSepRow(At(lines, i + 1))
            THEN "table"
       ELSE IF StartsWith(Strip(line), Dollars) THEN "math"
       ELSE IF StartsWith(line, <<"#">>) THEN "heading"
       ELSE IF StartsWith(line, <<">">>) THEN "quote"
       ELSE IF IsBulletItem(line) THEN "bullet"
       ELSE IF IsNumberItem(line) THEN "number"
       ELSE IF IsHrLine(line) THEN "hr"
       ELSE IF ImageLineMatch(Strip(line)) # <<>> THEN "image"
       ELSE "paragraph"

\* the results of the _extract_* helpers: content, the next index, and the
\* remainder of the line that _extract_block_math hands back (<<>> for None)
Extracted(c, i, rem) == [content |-> c, i |-> i, remaining |-> rem]

_extract_code_block(lines, start) ==
    LET language == Strip(From(Strip(At(lines, start)), 3))
        j == FirstFrom(lines, start + 1, {h \in 0..(Len(lines) - 1) : LET l == At(lines, h) IN Strip(l) = Fence})
        code == Join(Lines(lines, start + 1, j), <<NL>>)
    IN Extracted([language |-> language, code |-> code],
                 IF j < Len(lines) THEN j + 1 ELSE j, <<>>)

_extract_table(lines, start) ==
    LET j == FirstFrom(lines, start, {h \in 0..(Len(lines) - 1) : LET l == At(lines, h) IN ~Contains(l, "|")})
    IN Extracted(Join(Lines(lines, start, j), <<NL>>), j, <<>>)

\* _extract_block_math whose multi-line loop also stops at a blank line
_extract_block_math_StopAtBlank(lines, start) ==
    LET first_line == Strip(At(lines, start))
        e == SingleMathEnd(first_line)
    IN IF e > 0
       THEN LET formula == Strip(Slice(first_line, 3, e - 2))
                remaining == Strip(From(first_line, e))
            IN IF StartsWith(remaining, Dollars)
               THEN Extracted(formula, start, remaining)
               ELSE Extracted(formula, start + 1, <<>>)
       ELSE LET j == FirstFrom(lines, start + 1,
                               {h \in 0..(Len(lines) - 1) : LET l == At(lines, h) IN EndsWith(Strip(l), Dollars) \/ Strip(l) = <<>>})
                body == Lines(lines, start + 1, j)
            IN Extracted(Strip(Join(body, <<NL>>)), IF j < Len(lines) THEN j + 1 ELSE j, <<>>)

_extract_block_math(lines, start) ==
    LET first_line == Strip(At(lines, start))
        e == SingleMathEnd(first_line)
    IN IF e > 0
       THEN LET formula == Strip(Slice(first_line, 3, e - 2))
                remaining == Strip(From(first_line, e))
            IN IF StartsWith(remaining, Dollars)
               THEN Extracted(formula, start, remaining)
               ELSE Extracted(formula, start + 1, <<>>)
       ELSE LET j == FirstFrom(lines, start + 1, {h \in 0..(Len(lines) - 1) : LET l == At(lines, h) IN EndsWith(Strip(l), Dollars)})
                body == Lines(lines, start + 1, j)
                last == IF j < Len(lines) THEN Strip(At(lines, j)) ELSE <<>>
                math_lines == IF j < Len(lines) /\ last # Dollars
                              THEN Append(body, Slice(last, 1, Len(last) - 2))
                              ELSE body
            IN Extracted(Strip(Join(math_lines, <<NL>>)),
                         IF j < Len(lines) THEN j + 1 ELSE j, <<>>)

_extract_quote(lines, start) ==
    LET j == FirstFrom(lines, start, {h \in 0..(Len(lines) - 1) : LET l == At(lines, h) IN ~StartsWith(l, <<">">>)})
        quote_lines == [k \in 1..(j - start) |->
                          LET l == At(lines, start + k - 1)
                          IN IF Len(l) > 1 THEN Strip(Tail(l)) ELSE <<>>]
    IN Extracted(Join(quote_lines, <<NL>>), j, <<>>)

\* re.match(r'^(\s*)(\d+\.|\*|\-|\+)\s+(.*)$', line): [ok, indent, text]
ListItemMatch(line) ==
    LET n == RunLen(line, SpaceChars)
        rest == From(line, n)
        d == RunLen(rest, {"0", "1", "2", "3", "4", "5", "6", "7", "8", "9"})
        m == IF d >= 1 /\ Len(rest) > d /\ rest[d + 1] = "." THEN d + 1
             ELSE IF rest # <<>> /\ rest[1] \in {"*", "-", "+"} THEN 1
             ELSE 0
    IN IF m > 0 /\ Len(rest) > m /\ IsSpace(rest[m + 1])
       THEN [ok |-> TRUE, indent |-> n, text |-> LStrip(From(rest, m))]
       ELSE [ok |-> FALSE, indent |-> 0, text |-> <<>>]

_extract_list(lines, start, ordered) ==
    LET j == FirstFrom(lines, start, {h \in 0..(Len(lines) - 1) : LET l == At(lines, h) IN ~ListItemMatch(l).ok})
        items == [k \in 1..(j - start) |->
                    LET m == ListItemMatch(At(lines, start + k - 1))
                        it == ItemOf(m.text)
                    IN [level |-> m.indent \div 2, type |-> it.type,
                        checked |-> it.checked, text |-> it.text]]
    IN Extracted(items, j, <<>>)

\* the break conditions of the loop of _extract_paragraph, lines 355-374
SB_ParaStop(lines, k) ==
    LET line == At(lines, k)
    IN \/ Strip(line) = <<>>
       \/ StartsWith(line, <<"#">>)
       \/ StartsWith(Strip(line), Fence)
       \/ StartsWith(Strip(line), Dollars)
       \/ StartsWith(line, <<">">>)
       \/ IsBulletItem(line)
       \/ IsNumberItem(line)
       \/ IsHrLine(line)
       \/ (Contains(line, "|") /\ k + 1 < Len(lines) /\ Contains(At(lines, k + 1), "|")
           /\ IsSepRow(At(lines, k + 1)))

_extract_paragraph(lines, start) ==
    LET j == IF \E k \in start..(Len(lines) - 1) : SB_ParaStop(lines, k)
             THEN CHOOSE k \in start..(Len(lines) - 1) :
                     SB_ParaStop(lines, k) /\ \A m \in start..(k - 1) : ~SB_ParaStop(lines, m)
             ELSE Len(lines)
    IN Extracted(Join(Lines(lines, start, j), <<" ">>), j, <<>>)

SBMaxHeading == 6

\* f'heading_{min(level, 6)}'
HeadingType(level) ==
    CASE Min(level, SBMaxHeading) = 1 -> "heading_1"
      [] Min(level, SBMaxHeading) = 2 -> "heading_2"
      [] Min(level, SBMaxHeading) = 3 -> "heading_3"
      [] Min(level, SBMaxHeading) = 4 -> "heading_4"
      [] Min(level, SBMaxHeading) = 5 -> "heading_5"
      [] OTHER -> "heading_6"

SBBlock(t, c, sl) == [type |-> t, content |-> c, start_line |-> sl]

\* lines[:i] + [remaining] + lines[i:]
InsertAt(lines, i, x) == Lines(lines, 0, i) \o <<x>> \o From(lines, i)

\* the branches of the while loop, lines 168-242: the block appended, the next
\* index and the (possibly extended) line list
SB_Code(lines, i) ==
    LET r == _extract_code_block(lines, i)
    IN [block |-> SBBlock("code", r.content, i + 1), i |-> r.i, lines |-> lines]

SB_Table(lines, i) ==
    LET r == _extract_table(lines, i)
    IN [block |-> SBBlock("table", r.content, i + 1), i |-> r.i, lines |-> lines]

SB_Math(lines, i) ==
    LET r == _extract_block_math(lines, i)
    IN [block |-> SBBlock("math_block", r.content, i + 1), i |-> r.i,
        lines |-> IF r.remaining # <<>> THEN InsertAt(lines, r.i, r.remaining) ELSE lines]

SB_Heading_NoStrip(lines, i) ==
    LET line == At(lines, i)
        level == RunLen(line, {"#"})
    IN [block |-> SBBlock(HeadingType(level), From(line, level), i + 1),
        i |-> i + 1, lines |-> lines]

SB_Heading(lines, i) ==
    LET line == At(lines, i)
        level == RunLen(line, {"#"})
    IN [block |-> SBBlock(HeadingType(level), Strip(From(line, level)), i + 1),
        i |-> i + 1, lines |-> lines]

SB_Quote(lines, i) ==
    LET r == _extract_quote(lines, i)
    IN [block |-> SBBlock("quote", r.content, i + 1), i |-> r.i, lines |-> lines]

SB_Bullet(lines, i) ==
    LET r == _extract_list(lines, i, FALSE)
    IN [block |-> SBBlock("bullet_list", r.content, i + 1), i |-> r.i, lines |-> lines]

SB_Number(lines, i) ==
    LET r == _extract_list(lines, i, TRUE)
    IN [block |-> SBBlock("numbered_list", r.content, i + 1), i |-> r.i, lines |-> lines]

SB_Hr(lines, i) == [block |-> SBBlock("hr", <<>>, i + 1), i |-> i + 1, lines |-> lines]

SB_Image(lines, i) ==
    [block |-> SBBlock("image", ImageLineMatch(Strip(At(lines, i))), i + 1),
     i |-> i + 1, lines |-> lines]

SB_Paragraph(lines, i) ==
    LET r == _extract_paragraph(lines, i)
    IN [block |-> SBBlock("paragraph", r.content, i + 1), i |-> r.i, lines |-> lines]


(***************************************************************************)
(* The table cell scanner of src/parser.py.                                *)
(***************************************************************************)
MaxRowLen == 4

BS == "\\"

RECURSIVE CellScan(_, _, _, _)
\* the while loop of _split_table_cells and the final append; i is 0-based
CellScan(line, i, cells, current_cell) ==
    IF i >= Len(line)
    THEN IF current_cell # <<>> \/ cells # <<>>
         THEN Append(cells, Strip(current_cell))
         ELSE cells
    ELSE IF i > 0 /\ At(line, i) = "|" /\ At(line, i - 1) = BS
    THEN CellScan(line, i + 1, cells,
                  [current_cell EXCEPT ![Len(current_cell)] = "|"])
    ELSE IF At(line, i) = "|"
    THEN CellScan(line, i + 1, Append(cells, Strip(current_cell)), <<>>)
    ELSE CellScan(line, i + 1, cells, Append(current_cell, At(line, i)))

_split_table_cells(line) == CellScan(line, 0, <<>>, <<>>)

\* the characters table rows are built from
RowChars == {"a", " ", "|", BS}

\* the row of the documented example, bare and framed by outer pipes
RowExamples ==
    { <<"a", " ", BS, "|", " ", "b", " ", "|", " ", "c">>,
      <<"|", " ", "a", " ", BS, "|", " ", "b", " ", "|", " ", "c", " ", "|">> }

RowInputs == SeqsUpTo(RowChars, MaxRowLen) \cup RowExamples

(***************************************************************************)
(* Column alignments from the separator row of a table: parse_table of     *)
(* src/parser.py and TableHandler of src/handlers.py.                      *)
(***************************************************************************)
MaxSepLen == 4

\* a cell list without its empty first and last cell (rows framed by pipes)
DropOuterEmpty(cs) ==
    LET c1 == IF cs # <<>> /\ Head(cs) = <<>> THEN Tail(cs) ELSE cs
    IN IF c1 # <<>> /\ c1[Len(c1)] = <<>> THEN SubSeq(c1, 1, Len(c1) - 1) ELSE c1

\* align_cells of parse_table for the stripped second line of the table
align_cells(line) == DropOuterEmpty(_split_table_cells(Strip(line)))

\* the if/elif/else of parse_table's alignment loop
PT_Alignment(cell) ==
    LET c == Strip(cell)
    IN IF StartsWith(c, <<":">>) /\ EndsWith(c, <<":">>) THEN "center"
       ELSE IF EndsWith(c, <<":">>) THEN "right"
       ELSE "left"

parse_table_alignments(line) ==
    LET cs == align_cells(line) IN [k \in 1..Len(cs) |-> PT_Alignment(cs[k])]

\* TableHandler._parse_row
_parse_row(line) ==
    LET l0 == Strip(line)
        l1 == IF StartsWith(l0, <<"|">>) THEN Tail(l0) ELSE l0
        l2 == IF EndsWith(l1, <<"|">>) THEN SubSeq(l1, 1, Len(l1) - 1) ELSE l1
        parts == Split(l2, "|")
    IN [k \in 1..Len(parts) |-> Strip(parts[k])]

\* the if/elif/else of TableHandler._parse_alignments
TH_Alignment(cell) ==
    LET c == Strip(cell)
    IN IF StartsWith(c, <<":">>) /\ EndsWith(c, <<":">>) THEN "center"
       ELSE IF EndsWith(c, <<":">>) THEN "right"
       ELSE IF StartsWith(c, <<":">>) THEN "left"
       ELSE "center"

_parse_alignments(line) ==
    LET cs == _parse_row(line) IN [k \in 1..Len(cs) |-> TH_Alignment(cs[k])]

\* the characters separator rows are built from
SepChars == {":", "-", "|", " "}

\* the second non-blank line of a table text
SepInputs == { s \in SeqsUpTo(SepChars, MaxSepLen) : Strip(s) # <<>> }

(***************************************************************************)
(* A table block on its way to the document and to the preview:            *)
(* _extract_table and _process_block of src/converter.py,                  *)
(* TableHandler.parse_markdown_table of src/handlers.py, parse_table of    *)
(* src/parser.py.                                                          *)
(***************************************************************************)
MaxTableLines == 3

\* [l.strip() for l in table_text.strip().split('\n') if l.strip()]
RECURSIVE StrippedNonBlank(_)
StrippedNonBlank(ls) ==
    IF ls = <<>> THEN <<>>
    ELSE IF Strip(Head(ls)) = <<>> THEN StrippedNonBlank(Tail(ls))
    ELSE <<Strip(Head(ls))>> \o StrippedNonBlank(Tail(ls))

TableTextLines(table_text) == StrippedNonBlank(Split(Strip(table_text), NL))

\* the three results of a table parser; none stands for (None, None, None)
ParsedTable(n, h, r, a) == [none |-> n, headers |-> h, rows |-> r, alignments |-> a]

\* TableHandler.parse_markdown_table
parse_markdown_table(table_text) ==
    LET lines == TableTextLines(table_text)
    IN IF Len(lines) < 2 THEN ParsedTable(TRUE, <<>>, <<>>, <<>>)
       ELSE ParsedTable(FALSE, _parse_row(lines[1]),
                        [k \in 1..(Len(lines) - 2) |-> _parse_row(lines[k + 2])],
                        _parse_alignments(lines[2]))

\* the data rows of parse_table: rows without cells are skipped
RECURSIVE PT_Rows(_)
PT_Rows(ls) ==
    IF ls = <<>> THEN <<>>
    ELSE LET row == DropOuterEmpty(_split_table_cells(Head(ls)))
         IN IF row # <<>> THEN <<row>> \o PT_Rows(Tail(ls)) ELSE PT_Rows(Tail(ls))

parse_table(table_text) ==
    LET lines == TableTextLines(table_text)
    IN IF Len(lines) < 2 THEN ParsedTable(FALSE, <<>>, <<>>, <<>>)
       ELSE ParsedTable(FALSE, DropOuterEmpty(_split_table_cells(lines[1])),
                        PT_Rows(SubSeq(lines, 3, Len(lines))),
                        parse_table_alignments(lines[2]))

\* the table branch of _process_block: what it adds to the document
ProcessTable(content) ==
    LET t == parse_markdown_table(content)
    IN IF ~t.none /\ t.headers # <<>>
       THEN <<[kind |-> "table", headers |-> t.headers, rows |-> t.rows]>>
       ELSE <<>>

\* the lines table texts are built from
TableLineSet ==
    { <<"a", "|", "b">>, <<"|", "a", "|", "b", "|">>, <<"a", BS, "|", "b", "|", "c">>,
      <<"|", "a", "|", "|">>, <<"-", "-", "-">>, <<"-", "|", "-">>, <<"|", "-", "|", "-", "|">>,
      <<" ">>, <<"a">> }

\* the lines from a line on which the table trigger fires
TableInputs ==
    { ls \in SeqsUpTo(TableLineSet, MaxTableLines) :
        Len(ls) >= 2 /\ SB_Trigger(ls, 0) = "table" }

(***************************************************************************)
(* convert_latex_delimiters of src/utils.py                                *)
(***************************************************************************)
MaxLatexTokens == 4

MaxLatexSegs == 2

\* the least 0-based q >= from where the two characters \ and close stand, or -1
RECURSIVE FindClose(_, _, _)
FindClose(s, close, from) ==
    IF from + 1 >= Len(s) THEN -1
    ELSE IF At(s, from) = BS /\ At(s, from + 1) = close THEN from
    ELSE FindClose(s, close, from + 1)

\* re.sub(r'\\<open>(.+?)\\<close>', mark + r'\1' + mark, s, flags=re.DOTALL),
\* scanning from the 0-based position p: the lazy group takes at least one
\* character and ends at the first closing delimiter after it
RECURSIVE SubDelims(_, _, _, _, _)
SubDelims(s, open, close, mark, p) ==
    IF p >= Len(s) THEN <<>>
    ELSE LET q == IF p + 1 < Len(s) /\ At(s, p) = BS /\ At(s, p + 1) = open
                  THEN FindClose(s, close, p + 3)
                  ELSE -1
         IN IF q >= 0
            THEN mark \o Slice(s, p + 3, q) \o mark \o SubDelims(s, open, close, mark, q + 2)
            ELSE <<At(s, p)>> \o SubDelims(s, open, close, mark, p + 1)

convert_latex_delimiters(t) ==
    SubDelims(SubDelims(t, "[", "]", <<"$", "$">>, 0), "(", ")", <<"$">>, 0)

\* what texts are written from: delimiters, a backslash, formula characters
LatexTokens ==
    { <<BS, "(">>, <<BS, ")">>, <<BS, "[">>, <<BS, "]">>, <<BS>>, <<"x">>, <<NL>> }

\* formula texts: one line, two lines, a row break with its optional argument
LatexFormulas == { <<"x">>, <<"x", NL, "y">>, <<"a", BS, BS, "[", "b", "]">> }

LatexPlain == { <<"a">>, <<"$">>, <<"a", BS>> }

InlineSeg(f) == [kind |-> "inline", body |-> f]

BlockSeg(f) == [kind |-> "block", body |-> f]

PlainSeg(t) == [kind |-> "plain", body |-> t]

LatexSegs ==
    { InlineSeg(f) : f \in LatexFormulas } \cup { BlockSeg(f) : f \in LatexFormulas }
        \cup { PlainSeg(t) : t \in LatexPlain }

\* the source text of a segment
SegSource(g) ==
    IF g.kind = "inline" THEN <<BS, "(">> \o g.body \o <<BS, ")">>
    ELSE IF g.kind = "block" THEN <<BS, "[">> \o g.body \o <<BS, "]">>
    ELSE g.body

SegText(segs) == Join([k \in 1..Len(segs) |-> SegSource(segs[k])], <<>>)

LatexSegSeqs == SeqsUpTo(LatexSegs, MaxLatexSegs)

LatexInputs ==
    { Join(ts, <<>>) : ts \in SeqsUpTo(LatexTokens, MaxLatexTokens) }
        \cup { SegText(segs) : segs \in LatexSegSeqs }

(***************************************************************************)
(* parser.py: the inline tokenizer.  Positions are 1-based; a match is the *)
(* rule number of the alternative of the pattern that matched and the      *)
(* position of its last character.                                         *)
(***************************************************************************)
MaxInlineTokens == 3

None == "None"

Ch(t, k) == IF k \in 1..Len(t) THEN t[k] ELSE None

\* the marker m is at position p of t
HasAt(t, p, m) == p >= 1 /\ p + Len(m) - 1 <= Len(t) /\ SubSeq(t, p, p + Len(m) - 1) = m

\* \[[^\]]{n,}\]\([^\)]+\) with the bracket at p: position of the ")", or 0
BracketParen(t, p, n) ==
    LET rb == IndexFrom(t, "]", p + 1)
    IN IF rb = 0 \/ rb - (p + 1) < n \/ Ch(t, rb + 1) # "(" THEN 0
       ELSE LET rp == IndexFrom(t, ")", rb + 2)
            IN IF rp = 0 \/ rp = rb + 2 THEN 0 ELSE rp

\* c[^c]+c at p: position of the closing c, or 0
Enclosed(t, p, c) ==
    LET q == IndexFrom(t, c, p + 1)
    IN IF Ch(t, p) # c \/ q = 0 \/ q = p + 1 THEN 0 ELSE q

\* <br\s*/?> at p
BrTag(t, p) ==
    IF ~HasAt(t, p, <<"<", "b", "r">>) THEN 0
    ELSE LET k == p + 3 + RunLen(From(t, p + 2), SpaceChars)
             j == IF Ch(t, k) = "/" THEN k + 1 ELSE k
         IN IF Ch(t, j) = ">" THEN j ELSE 0

\* <tag>[^<]+</tag> at p, for the opening and closing tags open and close
HtmlTag(t, p, open, close) ==
    LET q == IndexFrom(t, "<", p + Len(open))
    IN IF ~HasAt(t, p, open) \/ q = 0 \/ q = p + Len(open) \/ ~HasAt(t, q, close)
       THEN 0 ELSE q + Len(close) - 1

\* m.+?m at p: the closest closing marker after at least one character, on the same line
Delimited(t, p, m) ==
    LET cs == p + Len(m)
        closes == {k \in (cs + 1)..Len(t) : HasAt(t, k, m)}
    IN IF ~HasAt(t, p, m) \/ closes = {} THEN 0
       ELSE LET k == CHOOSE x \in closes : \A y \in closes : x <= y
            IN IF \E j \in cs..(k - 1) : t[j] = NL THEN 0 ELSE k + Len(m) - 1

\* (?<!c)c(?!c)([^c\s][^c]*[^c\s]|[^c\s])c(?!c) at p
Emphasis(t, p, c) ==
    LET q == IndexFrom(t, c, p + 1)
    IN IF Ch(t, p) # c \/ Ch(t, p - 1) = c \/ q = 0 \/ q = p + 1 THEN 0
       ELSE IF IsSpace(t[p + 1]) \/ IsSpace(t[q - 1]) \/ Ch(t, q + 1) = c THEN 0
       ELSE q

Star3 == <<"*", "*", "*">>
Under3 == <<"_", "_", "_">>
Star2 == <<"*", "*">>
Under2 == <<"_", "_">>
Tilde2 == <<"~", "~">>
SupOpen == <<"<", "s", "u", "p", ">">>
SupClose == <<"<", "/", "s", "u", "p", ">">>
SubOpen == <<"<", "s", "u", "b", ">">>
SubClose == <<"<", "/", "s", "u", "b", ">">>

\* where alternative rule of the pattern ends when tried at p, or 0
RuleEnd(t, p, rule) ==
    CASE rule = 1 -> IF HasAt(t, p, <<"!", "[">>) THEN BracketParen(t, p + 1, 0) ELSE 0
      [] rule = 2 -> IF Ch(t, p) = "[" THEN BracketParen(t, p, 1) ELSE 0
      [] rule = 3 -> Enclosed(t, p, BT)
      [] rule = 4 -> Enclosed(t, p, "$")
      [] rule = 5 -> BrTag(t, p)
      [] rule = 6 -> HtmlTag(t, p, SupOpen, SupClose)
      [] rule = 7 -> HtmlTag(t, p, SubOpen, SubClose)
      [] rule = 8 -> Delimited(t, p, Star3)
      [] rule = 9 -> Delimited(t, p, Under3)
      [] rule = 10 -> Delimited(t, p, Star2)
      [] rule = 11 -> Delimited(t, p, Under2)
      [] rule = 12 -> Emphasis(t, p, "*")
      [] rule = 13 -> Emphasis(t, p, "_")
      [] rule = 14 -> Delimited(t, p, Tilde2)

\* the first alternative that matches at p: [rule, start, end], rule 0 when none does
MatchAt(t, p) ==
    LET hits == {r \in 1..14 : RuleEnd(t, p, r) # 0}
    IN IF hits = {} THEN [rule |-> 0, start |-> p, end |-> 0]
       ELSE LET r == CHOOSE x \in hits : \A y \in hits : x <= y
            IN [rule |-> r, start |-> p, end |-> RuleEnd(t, p, r)]

\* re.finditer(pattern, text) from position p on
RECURSIVE FindIter(_, _)
FindIter(t, p) ==
    IF p > Len(t) THEN <<>>
    ELSE LET m == MatchAt(t, p)
         IN IF m.rule = 0 THEN FindIter(t, p + 1)
            ELSE <<m>> \o FindIter(t, m.end + 1)

InlineElement(type, content, url) == [type |-> type, content |-> content, url |-> url]

Inner_Wide(full_match, a, b) == Slice(full_match, a + 2, Len(full_match) - b - 1)

\* full_match[a:-b]
Inner(full_match, a, b) == Slice(full_match, a + 1, Len(full_match) - b)

\* the element parse_inline appends for a match, chosen by how full_match starts
ElementOf(full_match) ==
    IF StartsWith(full_match, <<"!", "[">>)
    THEN LET rb == IndexFrom(full_match, "]", 3)
         IN InlineElement("image", Slice(full_match, 3, rb - 1),
                          Slice(full_match, rb + 2, Len(full_match) - 1))
    ELSE IF StartsWith(full_match, <<"[">>)
    THEN LET rb == IndexFrom(full_match, "]", 2)
         IN InlineElement("link", Slice(full_match, 2, rb - 1),
                          Slice(full_match, rb + 2, Len(full_match) - 1))
    ELSE IF StartsWith(full_match, <<BT>>) THEN InlineElement("code", Inner(full_match, 1, 1), None)
    ELSE IF StartsWith(full_match, <<"$">>) THEN InlineElement("math", Inner(full_match, 1, 1), None)
    ELSE IF StartsWith(full_match, <<"<", "b", "r">>) THEN InlineElement("linebreak", <<NL>>, None)
    ELSE IF StartsWith(full_match, SupOpen)
    THEN InlineElement("superscript", Inner(full_match, 5, 6), None)
    ELSE IF StartsWith(full_match, SubOpen)
    THEN InlineElement("subscript", Inner(full_match, 5, 6), None)
    ELSE IF StartsWith(full_match, Star3) \/ StartsWith(full_match, Under3)
    THEN InlineElement("bold_italic", Inner(full_match, 3, 3), None)
    ELSE IF StartsWith(full_match, Star2) THEN InlineElement("bold", Inner(full_match, 2, 2), None)
    ELSE IF StartsWith(full_match, Under2) THEN InlineElement("bold", Inner(full_match, 2, 2), None)
    ELSE IF StartsWith(full_match, Tilde2)
    THEN InlineElement("strikethrough", Inner(full_match, 2, 2), None)
    ELSE InlineElement("italic", Inner(full_match, 1, 1), None)

\* the body of the for loop over the matches, then the remaining text
RECURSIVE InlineLoop(_, _, _, _)
InlineLoop(t, matches, last_end, elements) ==
    IF matches = <<>>
    THEN LET all == IF last_end < Len(t)
                    THEN Append(elements, InlineElement("text", From(t, last_end), None))
                    ELSE elements
         IN IF all = <<>> THEN <<InlineElement("text", t, None)>> ELSE all
    ELSE LET m == Head(matches)
             plain == IF m.start - 1 > last_end
                      THEN Append(elements,
                                  InlineElement("text", Slice(t, last_end + 1, m.start - 1), None))
                      ELSE elements
         IN InlineLoop(t, Tail(matches), m.end,
                       Append(plain, ElementOf(Slice(t, m.start, m.end))))

\* parse_inline whose search for matches starts at the second character
parse_inline_FromSecond(t) == InlineLoop(t, FindIter(t, 2), 0, <<>>)

parse_inline(t) == InlineLoop(t, FindIter(t, 1), 0, <<>>)

\* the pieces inline inputs are built from
InlineTokens ==
    { <<"*">>, Star2, Star3, <<"_">>, Under2, <<"~", "~">>, <<"a">>, <<" ">>, <<"$">>, <<BT>>,
      <<"[", "t", "]">>, <<"(", "u", ")">>, <<"!">>, <<"<", "b", "r", ">">>, SupOpen, SupClose }

RECURSIVE Concat(_)
Concat(ss) == IF ss = <<>> THEN <<>> ELSE Head(ss) \o Concat(Tail(ss))

\* inline texts of the documentation and the tests
InlineExamples ==
    { Concat(<<Star2, <<"_", "x", "_">>, Star2>>),
      Concat(<<Under2, <<"*", "x", "*">>, Under2>>),
      Concat(<<SubOpen, <<"2">>, SubClose>>),
      Concat(<<Under3, <<"a">>, Under3>>),
      Concat(<<Tilde2, Star2, <<"a">>, Star2, Tilde2>>),
      <<"<", "b", "r", " ", "/", ">">>,
      <<"a", "*", "b", "*", "c">>,
      <<"2", " ", "*", " ", "3", " ", "*", " ", "4">> }

\* struck-through text with plain text before and after it
StrikeExamples ==
    { pre \o Tilde2 \o s \o Tilde2 \o post :
        pre \in { <<>>, <<"a">>, <<"a", " ">> },
        s \in { <<"a">>, <<"a", " ", "a">>, <<" ">> },
        post \in { <<>>, <<"a">>, <<" ", "a">> } }

InlineInputs ==
    { Concat(ts) : ts \in SeqsUpTo(InlineTokens, MaxInlineTokens) }
        \cup InlineExamples \cup StrikeExamples

(***************************************************************************)
(* converter.py and handlers.py: the block loop of convert_text and the    *)
(* handling of a formula that fails to convert.  An exception is modelled  *)
(* by the name of its class, "none" when nothing is raised.                *)
(***************************************************************************)
MaxExportBlocks == 3

\* what latex_to_mathml (latex2mathml.converter.convert) can raise: its own
\* exception classes derive from Exception
TranspileRaises == {"none", "ValueError", "LibraryError"}

\* what parsing and rewriting the MathML can raise
RewriteRaises == {"none", "XMLSyntaxError", "ValueError", "OtherError"}

\* what processing a block can raise outside the formula stages
BlockRaises == {"none", "Exception"}

Raised(e, runs) == [raised |-> e, runs |-> runs]

\* _mathml_to_omml: XMLSyntaxError is answered by None, anything else propagates
MathmlToOmml(rewrite) ==
    IF rewrite = "none" THEN [omml |-> "oMath", raised |-> "none"]
    ELSE IF rewrite = "XMLSyntaxError" THEN [omml |-> None, raised |-> "none"]
    ELSE [omml |-> None, raised |-> rewrite]

_insert_math(transpile, rewrite) ==
    IF transpile # "none" THEN Raised(transpile, <<>>)
    ELSE LET r == MathmlToOmml(rewrite)
         IN IF r.raised # "none" THEN Raised(r.raised, <<>>)
            ELSE IF r.omml # None THEN Raised("none", <<"omml">>)
            ELSE Raised("ValueError", <<>>)

\* except (ValueError, etree.XMLSyntaxError)
FormulaCaught == {"ValueError", "XMLSyntaxError"}

add_block_equation(transpile, rewrite) ==
    LET r == _insert_math(transpile, rewrite)
    IN IF r.raised = "none" THEN Raised("none", <<"tab">> \o r.runs \o <<"tab", "number">>)
       ELSE IF r.raised \in FormulaCaught
       THEN Raised("none", <<"tab", "italic_latex", "tab", "number">>)
       ELSE Raised(r.raised, <<"tab">>)

add_inline_equation(transpile, rewrite) ==
    LET r == _insert_math(transpile, rewrite)
    IN IF r.raised = "none" THEN r
       ELSE IF r.raised \in FormulaCaught THEN Raised("none", <<"italic_latex">>)
       ELSE Raised(r.raised, <<>>)

\* the kinds of block of the model: a block formula, a paragraph with one
\* inline formula, a paragraph of plain text
ExportKinds == {"math_block", "inline_math", "paragraph"}

\* _process_block for a block of a kind, given what its stages raise
_process_block(kind, transpile, rewrite, other) ==
    IF other # "none" THEN Raised(other, <<>>)
    ELSE IF kind = "math_block" THEN add_block_equation(transpile, rewrite)
    ELSE IF kind = "inline_math" THEN add_inline_equation(transpile, rewrite)
    ELSE Raised("none", <<"text">>)

PollRaises_Ignored(cancel_event) == "none"

\* the poll of convert_text before a block: cancel_event is "none" (no event
\* was passed), "clear" or "set"
PollRaises(cancel_event) == IF cancel_event = "set" THEN "ExportCancelled" ELSE "none"

\* except ExportCancelled: raise / except Exception: raise ConversionError
Reraise(e) == IF e = "ExportCancelled" THEN "ExportCancelled" ELSE "ConversionError"

\* the callback do_export_for_app.convert schedules for how the conversion ended
CallbackFor(ended) ==
    IF ended = "none" THEN "success"
    ELSE IF ended = "ExportCancelled" THEN "cancel"
    ELSE "error"

ExportInputs == SeqsUpTo(ExportKinds, MaxExportBlocks)

(***************************************************************************)
(* handlers.py: the rewrite of a MathML tree into OMML.  An input node is  *)
(* [tag, text, kids]; an output node is [tag, text, val, kids], val being  *)
(* the value of its m:val attribute.  The rewrite of a node is the         *)
(* sequence of nodes it appends to its output parent.                      *)
(***************************************************************************)
MaxMathKids == 3

Elem(tag, text, kids) == [tag |-> tag, text |-> text, kids |-> kids]

OElem(tag, text, val, kids) == [tag |-> tag, text |-> text, val |-> val, kids |-> kids]

\* html.unescape on the texts of the model; None and '' give ''
_decode_text(text) == IF text = "&lt;" THEN "<" ELSE text

\* <m:r><m:t>text</m:t></m:r>
Run(text) == OElem("r", "", "", <<OElem("t", text, "", <<>>)>>)

RECURSIVE _convert_mathml_element(_)
RECURSIVE ConvertEach(_)
\* for child in children: self._convert_mathml_element(child, parent)
ConvertEach(children) ==
    IF children = <<>> THEN <<>>
    ELSE _convert_mathml_element(Head(children)) \o ConvertEach(Tail(children))

\* the rewrite of children[k] when the node has that many children (k is 0-based)
ConvertChild(children, k) ==
    IF Len(children) >= k + 1 THEN _convert_mathml_element(children[k + 1]) ELSE <<>>

\* the m:mr of a row of an mtable
MatrixRow(row_elem) ==
    LET cells == IF row_elem.tag = "mtr"
                 THEN SelectSeq(row_elem.kids, LAMBDA c : c.tag = "mtd")
                 ELSE <<>>
    IN OElem("mr", "", "", [k \in 1..Len(cells) |->
                               OElem("e", "", "", ConvertEach(cells[k].kids))])

_convert_mathml_element(mathml_elem) ==
    LET tag == mathml_elem.tag
        children == mathml_elem.kids
    IN CASE tag \in {"math", "mrow"} -> ConvertEach(children)
         [] tag \in {"mi", "mn", "mo"} -> <<Run(_decode_text(mathml_elem.text))>>
         [] tag = "mfrac" ->
              <<OElem("f", "", "", <<OElem("num", "", "", ConvertChild(children, 0)),
                                     OElem("den", "", "", ConvertChild(children, 1))>>)>>
         [] tag = "msup" ->
              <<OElem("sSup", "", "", <<OElem("e", "", "", ConvertChild(children, 0)),
                                        OElem("sup", "", "", ConvertChild(children, 1))>>)>>
         [] tag = "msub" ->
              <<OElem("sSub", "", "", <<OElem("e", "", "", ConvertChild(children, 0)),
                                        OElem("sub", "", "", ConvertChild(children, 1))>>)>>
         [] tag = "msqrt" ->
              <<OElem("rad", "", "",
                      <<OElem("radPr", "", "", <<OElem("degHide", "", "1", <<>>)>>),
                        OElem("e", "", "", ConvertEach(children))>>)>>
         [] tag = "msubsup" ->
              <<OElem("sSubSup", "", "", <<OElem("e", "", "", ConvertChild(children, 0)),
                                           OElem("sub", "", "", ConvertChild(children, 1)),
                                           OElem("sup", "", "", ConvertChild(children, 2))>>)>>
         [] tag = "mtable" ->
              <<OElem("m", "", "",
                      <<OElem("mPr", "", "", <<>>)>>
                      \o [k \in 1..Len(children) |-> MatrixRow(children[k])])>>
         [] tag = "mover" ->
              <<OElem("acc", "", "",
                      <<OElem("accPr", "", "",
                              IF Len(children) >= 2 /\ children[2].text # ""
                              THEN <<OElem("chr", "", children[2].text, <<>>)>>
                              ELSE <<>>),
                        OElem("e", "", "", ConvertChild(children, 0))>>)>>
         [] tag = "munder" -> ConvertEach(children)
         [] tag = "munderover" ->
              <<OElem("nary", "", "",
                      <<OElem("naryPr", "", "",
                              IF Len(children) >= 1 /\ children[1].text # ""
                              THEN <<OElem("chr", "", _decode_text(children[1].text), <<>>)>>
                              ELSE <<>>),
                        OElem("sub", "", "", ConvertChild(children, 1)),
                        OElem("sup", "", "", ConvertChild(children, 2)),
                        OElem("e", "", "", <<>>)>>)>>
         [] tag = "mtext" ->
              <<OElem("r", "", "", <<OElem("rPr", "", "", <<OElem("nor", "", "", <<>>)>>),
                                     OElem("t", _decode_text(mathml_elem.text), "", <<>>)>>)>>
         [] tag = "mspace" -> <<Run(" ")>>
         [] tag = "mfenced" ->
              <<OElem("d", "", "",
                      <<OElem("dPr", "", "", <<OElem("begChr", "", "(", <<>>),
                                               OElem("endChr", "", ")", <<>>)>>),
                        OElem("e", "", "", ConvertEach(children))>>)>>
         [] OTHER ->
              ConvertEach(children)
              \o (IF mathml_elem.text # "" THEN <<Run(_decode_text(mathml_elem.text))>> ELSE <<>>)

\* _mathml_to_omml: the m:oMath element the tree is rewritten into
_mathml_to_omml(mathml_tree) == OElem("oMath", "", "", _convert_mathml_element(mathml_tree))

\* the MathML trees the rewrite is applied to
MathLeaves == {Elem("mi", "x", <<>>), Elem("mn", "1", <<>>), Elem("mo", "&lt;", <<>>)}

MathTags ==
    {"math", "mrow", "mfrac", "msup", "msub", "msqrt", "msubsup", "mtable", "mtr", "mtd",
     "mover", "munder", "munderover", "mfenced", "mstyle"}

\* a node over leaves
MathFlat == {Elem(tag, "", kids) : tag \in MathTags, kids \in SeqsUpTo(MathLeaves, MaxMathKids)}

\* the groups nested one level down
MathGroups ==
    {Elem(tag, "", kids) : tag \in {"mrow", "mtd"}, kids \in SeqsUpTo(MathLeaves, 1)}

MathNested ==
    {Elem(tag, "", kids) : tag \in MathTags, kids \in SeqsUpTo(MathLeaves \cup MathGroups, 2)}

\* a matrix, a text node, a space, an unknown node with text of its own
MathExamples ==
    { Elem("math", "", <<Elem("mtable", "", <<Elem("mtr", "",
                           <<Elem("mtd", "", <<Elem("mi", "x", <<>>)>>),
                             Elem("mtd", "", <<Elem("mn", "1", <<>>)>>)>>)>>)>>),
      Elem("mrow", "", <<Elem("mtext", "x", <<>>), Elem("mspace", "", <<>>)>>),
      Elem("merror", "x", <<Elem("mn", "1", <<>>)>>) }

MathInputs == MathFlat \cup MathNested \cup MathExamples
(***************************************************************************)
(* State: one group of variables per component; a specification runs one   *)
(* component and leaves the variables of the others at their idle values.  *)
(***************************************************************************)
Unset == <<"unset">>

VARIABLES
    md_text, npc, norm1, norm2,
    text, pm_pc, pm_lines, pm_i, pm_blocks, pm_consumed,
    sb_pc, sb_lines, sb_i, sb_blocks, sb_origin, sb_consumed,
    row, cells,
    inline_text, elements,
    mathml_tree, omml,
    sep_line, pt_alignments, th_alignments,
    latex_text, lpc, latex1, latex2,
    tb_lines, tb_pc, tb_content, tb_doc, th_table, pt_table,
    ex_blocks, cancel_event, ex_pc, ex_idx, ex_doc, ex_log, ex_ended, ex_callback, ex_saved,
    export_btn, cancel_export_btn, _export_cancel_event, ui_callbacks

normVars == <<md_text, npc, norm1, norm2>>

pmVars == <<pm_pc, pm_lines, pm_i, pm_blocks, pm_consumed>>

sbVars == <<sb_pc, sb_lines, sb_i, sb_blocks, sb_origin, sb_consumed>>

splitVars == <<text, pmVars, sbVars>>

cellVars == <<row, cells>>

inlineVars == <<inline_text, elements>>

mathVars == <<mathml_tree, omml>>

alignVars == <<sep_line, pt_alignments, th_alignments>>

latexVars == <<latex_text, lpc, latex1, latex2>>

tableVars == <<tb_lines, tb_pc, tb_content, tb_doc, th_table, pt_table>>

\* the widgets and the attribute of the app that an export run touches, and
\* the callbacks the UI thread has run
uiVars == <<export_btn, cancel_export_btn, _export_cancel_event, ui_callbacks>>

exportVars == <<ex_blocks, cancel_event, ex_pc, ex_idx, ex_doc, ex_log, ex_ended, ex_callback, ex_saved, uiVars>>

vars == <<normVars, splitVars, cellVars, inlineVars, mathVars, alignVars, latexVars, tableVars, exportVars>>

\* the variables of the components other than the one named
notNorm == <<splitVars, cellVars, inlineVars, mathVars, exportVars, alignVars, latexVars, tableVars>>

notSplit == <<normVars, cellVars, inlineVars, mathVars, exportVars, alignVars, latexVars, tableVars>>

notCells == <<normVars, splitVars, inlineVars, mathVars, exportVars, alignVars, latexVars, tableVars>>

notInline == <<normVars, splitVars, cellVars, mathVars, exportVars, alignVars, latexVars, tableVars>>

notMath == <<normVars, splitVars, cellVars, inlineVars, exportVars, alignVars, latexVars, tableVars>>

notAlign == <<normVars, splitVars, cellVars, inlineVars, mathVars, latexVars, tableVars, exportVars>>

notLatex == <<normVars, splitVars, cellVars, inlineVars, mathVars, alignVars, tableVars, exportVars>>

notTable == <<normVars, splitVars, cellVars, inlineVars, mathVars, alignVars, latexVars, exportVars>>

notExport == <<normVars, splitVars, cellVars, inlineVars, mathVars, alignVars, latexVars, tableVars>>

NormIdle == md_text = <<>> /\ npc = "idle" /\ norm1 = Unset /\ norm2 = Unset

SplitIdle ==
    /\ text = <<>>
    /\ pm_pc = "idle" /\ pm_lines = <<>> /\ pm_i = 0 /\ pm_blocks = <<>> /\ pm_consumed = <<>>
    /\ sb_pc = "idle" /\ sb_lines = <<>> /\ sb_i = 0 /\ sb_blocks = <<>>
    /\ sb_origin = <<>> /\ sb_consumed = <<>>

\* values of the result variables before the function has been applied
NoCells == <<Unset>>

NoElements == <<>>

NoTree == [tag |-> "none", text |-> "", kids |-> <<>>]

NoAlignments == <<"unset">>

NoOmml == [tag |-> "none", text |-> "", val |-> "", kids |-> <<>>]

CellsIdle == row = <<>> /\ cells = NoCells

InlineIdle == inline_text = <<>> /\ elements = NoElements

MathIdle == mathml_tree = NoTree /\ omml = NoOmml

AlignIdle == sep_line = <<>> /\ pt_alignments = NoAlignments /\ th_alignments = NoAlignments

NoTable == [none |-> TRUE, headers |-> <<>>, rows |-> <<>>, alignments |-> <<>>]

TableIdle ==
    /\ tb_lines = <<>> /\ tb_pc = "idle" /\ tb_content = <<>> /\ tb_doc = <<>>
    /\ th_table = NoTable /\ pt_table = NoTable

LatexIdle == latex_text = <<>> /\ lpc = "idle" /\ latex1 = Unset /\ latex2 = Unset

\* no export is running: the export button is enabled, the cancel button is
\* disabled and no cancel event is stored
UiIdle ==
    /\ export_btn = "normal" /\ cancel_export_btn = "disabled"
    /\ _export_cancel_event = None /\ ui_callbacks = <<>>

\* what do_export_for_app leaves before it starts the worker thread
UiExporting ==
    /\ export_btn = "disabled" /\ cancel_export_btn = "normal"
    /\ _export_cancel_event = "Event" /\ ui_callbacks = <<>>

ExportIdle ==
    /\ ex_blocks = <<>> /\ cancel_event = "none" /\ ex_pc = "idle" /\ ex_idx = 0
    /\ ex_doc = <<>> /\ ex_log = <<>> /\ ex_ended = "idle" /\ ex_callback = "none"
    /\ ex_saved = "no" /\ UiIdle

(***************************************************************************)
(* SpecNorm: normalize_markdown applied to an input and to its own output  *)
(***************************************************************************)
InitNorm ==
    /\ md_text \in NormInputs
    /\ npc = "start"
    /\ norm1 = Unset
    /\ norm2 = Unset
    /\ SplitIdle /\ CellsIdle /\ InlineIdle /\ MathIdle /\ ExportIdle
    /\ AlignIdle /\ LatexIdle /\ TableIdle

\* result = normalize_markdown(md_text)
Normalize ==
    /\ npc = "start"
    /\ norm1' = normalize_markdown(md_text)
    /\ npc' = "once"
    /\ UNCHANGED <<md_text, norm2, notNorm>>

\* normalize_markdown applied to its own output
Renormalize ==
    /\ npc = "once"
    /\ norm2' = normalize_markdown(norm1)
    /\ npc' = "twice"
    /\ UNCHANGED <<md_text, norm1, notNorm>>

NextNorm == Normalize \/ Renormalize

SpecNorm == InitNorm /\ [][NextNorm]_vars

(***************************************************************************)
(* SpecSplit: parse_markdown, then _split_into_blocks, on the same text.   *)
(* Each action is one iteration of the splitter's while loop.  pm_consumed *)
(* and sb_consumed record, for every block, the numbers of the input lines *)
(* the index moved over in the iteration that appended it; sb_origin gives *)
(* the input line each element of sb_lines comes from.                     *)
(***************************************************************************)
InitSplit ==
    /\ text \in SplitInputs
    /\ pm_pc = "run" /\ pm_lines = Split(text, NL) /\ pm_i = 0
    /\ pm_blocks = <<>> /\ pm_consumed = <<>>
    /\ sb_pc = "run" /\ sb_lines = Split(text, NL) /\ sb_i = 0
    /\ sb_blocks = <<>> /\ sb_consumed = <<>>
    /\ sb_origin = [k \in 1..Len(Split(text, NL)) |-> k]
    /\ NormIdle /\ CellsIdle /\ InlineIdle /\ MathIdle /\ ExportIdle
    /\ AlignIdle /\ LatexIdle /\ TableIdle

PM_Running == pm_pc = "run" /\ pm_i < Len(pm_lines)

\* the line numbers lines[a:b] of a list of n lines, 1-based
Range(a, b, n) == [k \in 1..(Min(b, n) - a) |-> a + k]

\* blocks.append(...) and the new index of an iteration of parse_markdown
PM_Apply(r) ==
    /\ pm_blocks' = Append(pm_blocks, r.block)
    /\ pm_consumed' = Append(pm_consumed, Range(pm_i, r.i, Len(pm_lines)))
    /\ pm_i' = r.i
    /\ pm_lines' = r.lines

PM_BlankLine ==
    /\ PM_Running
    /\ PM_Trigger(pm_lines, pm_i) = "blank"
    /\ pm_i' = pm_i + 1
    /\ UNCHANGED <<pm_pc, pm_lines, pm_blocks, pm_consumed, text, sbVars, notSplit>>

PM_CodeBlock ==
    /\ PM_Running
    /\ PM_Trigger(pm_lines, pm_i) = "code"
    /\ PM_Apply(PM_Code(pm_lines, pm_i))
    /\ UNCHANGED <<pm_pc, text, sbVars, notSplit>>

PM_MathBlock ==
    /\ PM_Running
    /\ PM_Trigger(pm_lines, pm_i) = "math"
    /\ PM_Apply(PM_Math(pm_lines, pm_i))
    /\ UNCHANGED <<pm_pc, text, sbVars, notSplit>>

PM_HeadingLine ==
    /\ PM_Running
    /\ PM_Trigger(pm_lines, pm_i) = "heading"
    /\ PM_Apply(PM_Heading(pm_lines, pm_i))
    /\ UNCHANGED <<pm_pc, text, sbVars, notSplit>>

PM_TableBlock ==
    /\ PM_Running
    /\ PM_Trigger(pm_lines, pm_i) = "table"
    /\ PM_Apply(PM_Table(pm_lines, pm_i))
    /\ UNCHANGED <<pm_pc, text, sbVars, notSplit>>

PM_QuoteBlock ==
    /\ PM_Running
    /\ PM_Trigger(pm_lines, pm_i) = "quote"
    /\ PM_Apply(PM_Quote(pm_lines, pm_i))
    /\ UNCHANGED <<pm_pc, text, sbVars, notSplit>>

PM_BulletList ==
    /\ PM_Running
    /\ PM_Trigger(pm_lines, pm_i) = "bullet"
    /\ PM_Apply(PM_Bullet(pm_lines, pm_i))
    /\ UNCHANGED <<pm_pc, text, sbVars, notSplit>>

PM_NumberList ==
    /\ PM_Running
    /\ PM_Trigger(pm_lines, pm_i) = "number"
    /\ PM_Apply(PM_Number(pm_lines, pm_i))
    /\ UNCHANGED <<pm_pc, text, sbVars, notSplit>>

PM_HrLine ==
    /\ PM_Running
    /\ PM_Trigger(pm_lines, pm_i) = "hr"
    /\ PM_Apply(PM_Hr(pm_lines, pm_i))
    /\ UNCHANGED <<pm_pc, text, sbVars, notSplit>>

PM_ImageLine ==
    /\ PM_Running
    /\ PM_Trigger(pm_lines, pm_i) = "image"
    /\ PM_Apply(PM_Image(pm_lines, pm_i))
    /\ UNCHANGED <<pm_pc, text, sbVars, notSplit>>

\* the paragraph branch appends a block only when it consumed a line; when the
\* first line already breaks the inner loop nothing changes, and the while loop
\* repeats the same iteration forever: pm_pc records it as "diverged"
PM_ParagraphBlock ==
    /\ PM_Running
    /\ PM_Trigger(pm_lines, pm_i) = "paragraph"
    /\ LET r == PM_Paragraph(pm_lines, pm_i)
       IN IF r.i > pm_i
          THEN /\ pm_blocks' = Append(pm_blocks, r.block)
               /\ pm_consumed' = Append(pm_consumed, Range(pm_i, r.i, Len(pm_lines)))
               /\ pm_i' = r.i
               /\ UNCHANGED pm_pc
          ELSE /\ pm_pc' = "diverged"
               /\ UNCHANGED <<pm_blocks, pm_consumed, pm_i>>
    /\ UNCHANGED <<pm_lines, text, sbVars, notSplit>>

\* return blocks
PM_Return ==
    /\ pm_pc = "run"
    /\ pm_i >= Len(pm_lines)
    /\ pm_pc' = "done"
    /\ UNCHANGED <<pm_lines, pm_i, pm_blocks, pm_consumed, text, sbVars, notSplit>>

\* _split_into_blocks starts once parse_markdown has returned or diverged; the
\* number of blocks is capped so that a loop that never ends stays finite
SB_Running ==
    /\ pm_pc \in {"done", "diverged"}
    /\ sb_pc = "run"
    /\ sb_i < Len(sb_lines)
    /\ Len(sb_blocks) < MaxBlocks

\* blocks.append(...), the new index and the new line list of an iteration
SB_Apply(r) ==
    /\ sb_blocks' = Append(sb_blocks, r.block)
    /\ sb_consumed' =
         Append(sb_consumed,
                [k \in 1..(Min(r.i, Len(sb_lines)) - sb_i) |-> sb_origin[sb_i + k]])
    /\ sb_i' = r.i
    /\ sb_lines' = r.lines
    /\ sb_origin' = IF Len(r.lines) > Len(sb_lines)
                    THEN InsertAt(sb_origin, r.i, sb_origin[sb_i + 1])
                    ELSE sb_origin

SB_BlankLine ==
    /\ SB_Running
    /\ SB_Trigger(sb_lines, sb_i) = "blank"
    /\ sb_i' = sb_i + 1
    /\ UNCHANGED <<sb_pc, sb_lines, sb_blocks, sb_origin, sb_consumed, text, pmVars, notSplit>>

SB_CodeBlock ==
    /\ SB_Running
    /\ SB_Trigger(sb_lines, sb_i) = "code"
    /\ SB_Apply(SB_Code(sb_lines, sb_i))
    /\ UNCHANGED <<sb_pc, text, pmVars, notSplit>>

SB_TableBlock ==
    /\ SB_Running
    /\ SB_Trigger(sb_lines, sb_i) = "table"
    /\ SB_Apply(SB_Table(sb_lines, sb_i))
    /\ UNCHANGED <<sb_pc, text, pmVars, notSplit>>

SB_MathBlock ==
    /\ SB_Running
    /\ SB_Trigger(sb_lines, sb_i) = "math"
    /\ SB_Apply(SB_Math(sb_lines, sb_i))
    /\ UNCHANGED <<sb_pc, text, pmVars, notSplit>>

SB_HeadingLine ==
    /\ SB_Running
    /\ SB_Trigger(sb_lines, sb_i) = "heading"
    /\ SB_Apply(SB_Heading(sb_lines, sb_i))
    /\ UNCHANGED <<sb_pc, text, pmVars, notSplit>>

SB_QuoteBlock ==
    /\ SB_Running
    /\ SB_Trigger(sb_lines, sb_i) = "quote"
    /\ SB_Apply(SB_Quote(sb_lines, sb_i))
    /\ UNCHANGED <<sb_pc, text, pmVars, notSplit>>

SB_BulletList ==
    /\ SB_Running
    /\ SB_Trigger(sb_lines, sb_i) = "bullet"
    /\ SB_Apply(SB_Bullet(sb_lines, sb_i))
    /\ UNCHANGED <<sb_pc, text, pmVars, notSplit>>

SB_NumberList ==
    /\ SB_Running
    /\ SB_Trigger(sb_lines, sb_i) = "number"
    /\ SB_Apply(SB_Number(sb_lines, sb_i))
    /\ UNCHANGED <<sb_pc, text, pmVars, notSplit>>

SB_HrLine ==
    /\ SB_Running
    /\ SB_Trigger(sb_lines, sb_i) = "hr"
    /\ SB_Apply(SB_Hr(sb_lines, sb_i))
    /\ UNCHANGED <<sb_pc, text, pmVars, notSplit>>

SB_ImageLine ==
    /\ SB_Running
    /\ SB_Trigger(sb_lines, sb_i) = "image"
    /\ SB_Apply(SB_Image(sb_lines, sb_i))
    /\ UNCHANGED <<sb_pc, text, pmVars, notSplit>>

SB_ParagraphBlock ==
    /\ SB_Running
    /\ SB_Trigger(sb_lines, sb_i) = "paragraph"
    /\ SB_Apply(SB_Paragraph(sb_lines, sb_i))
    /\ UNCHANGED <<sb_pc, text, pmVars, notSplit>>

\* return blocks
SB_Return ==
    /\ pm_pc \in {"done", "diverged"}
    /\ sb_pc = "run"
    /\ sb_i >= Len(sb_lines)
    /\ sb_pc' = "done"
    /\ UNCHANGED <<sb_lines, sb_i, sb_blocks, sb_origin, sb_consumed, text, pmVars, notSplit>>

NextSplit ==
    \/ PM_BlankLine \/ PM_CodeBlock \/ PM_MathBlock \/ PM_HeadingLine \/ PM_TableBlock
    \/ PM_QuoteBlock \/ PM_BulletList \/ PM_NumberList \/ PM_HrLine \/ PM_ImageLine
    \/ PM_ParagraphBlock \/ PM_Return
    \/ SB_BlankLine \/ SB_CodeBlock \/ SB_TableBlock \/ SB_MathBlock \/ SB_HeadingLine
    \/ SB_QuoteBlock \/ SB_BulletList \/ SB_NumberList \/ SB_HrLine \/ SB_ImageLine
    \/ SB_ParagraphBlock \/ SB_Return

SpecSplit == InitSplit /\ [][NextSplit]_vars


(***************************************************************************)
(* SpecCells: _split_table_cells applied to a table row                    *)
(***************************************************************************)
InitCells ==
    /\ row \in RowInputs
    /\ cells = NoCells
    /\ NormIdle /\ SplitIdle /\ InlineIdle /\ MathIdle /\ ExportIdle
    /\ AlignIdle /\ LatexIdle /\ TableIdle

SplitCells ==
    /\ cells = NoCells
    /\ cells' = _split_table_cells(row)
    /\ UNCHANGED <<row, notCells>>

NextCells == SplitCells

SpecCells == InitCells /\ [][NextCells]_vars

(***************************************************************************)
(* SpecInline: parse_inline applied to the text of a block                 *)
(***************************************************************************)
InitInline ==
    /\ inline_text \in InlineInputs
    /\ elements = NoElements
    /\ NormIdle /\ SplitIdle /\ CellsIdle /\ MathIdle /\ ExportIdle
    /\ AlignIdle /\ LatexIdle /\ TableIdle

ParseInline ==
    /\ elements = NoElements
    /\ elements' = parse_inline(inline_text)
    /\ UNCHANGED <<inline_text, notInline>>

NextInline == ParseInline

SpecInline == InitInline /\ [][NextInline]_vars

(***************************************************************************)
(* SpecMath: _mathml_to_omml rewrites a parsed MathML tree                 *)
(***************************************************************************)
InitMath ==
    /\ mathml_tree \in MathInputs
    /\ omml = NoOmml
    /\ NormIdle /\ SplitIdle /\ CellsIdle /\ InlineIdle /\ ExportIdle
    /\ AlignIdle /\ LatexIdle /\ TableIdle

RewriteMath ==
    /\ omml = NoOmml
    /\ omml' = _mathml_to_omml(mathml_tree)
    /\ UNCHANGED <<mathml_tree, notMath>>

NextMath == RewriteMath

SpecMath == InitMath /\ [][NextMath]_vars

(***************************************************************************)
(* SpecExport: the block loop of convert_text run by the worker thread of  *)
(* do_export_for_app, while the holder of the cancel event may set it.     *)
(* ex_log records every poll and every processed block.                    *)
(***************************************************************************)
LogEntry(ev, idx, set, kind, transpile, rewrite, other, raised) ==
    [ev |-> ev, idx |-> idx, set |-> set, kind |-> kind, transpile |-> transpile,
     rewrite |-> rewrite, other |-> other, raised |-> raised]

InitExport ==
    /\ ex_blocks \in ExportInputs
    /\ cancel_event \in {"none", "clear"}
    /\ ex_pc = "poll"
    /\ ex_idx = 1
    /\ ex_doc = <<>>
    /\ ex_log = <<>>
    /\ ex_ended = "running"
    /\ ex_callback = "none"
    /\ ex_saved = "no"
    /\ IF cancel_event = "none" THEN UiIdle ELSE UiExporting
    /\ NormIdle /\ SplitIdle /\ CellsIdle /\ InlineIdle /\ MathIdle
    /\ AlignIdle /\ LatexIdle /\ TableIdle

\* cancel_event.set() by whoever holds app._export_cancel_event
SetCancel ==
    /\ ex_pc \in {"poll", "process"}
    /\ cancel_event = "clear"
    /\ cancel_event' = "set"
    /\ UNCHANGED <<ex_blocks, ex_pc, ex_idx, ex_doc, ex_log, ex_ended, ex_callback, ex_saved, uiVars, notExport>>

\* the head of an iteration: raise ExportCancelled when the event is set
EX_Poll ==
    /\ ex_pc = "poll"
    /\ ex_idx <= Len(ex_blocks)
    /\ ex_log' = Append(ex_log, LogEntry("poll", ex_idx, cancel_event = "set",
                                        "none", "none", "none", "none",
                                        PollRaises(cancel_event)))
    /\ IF PollRaises(cancel_event) # "none"
       THEN ex_pc' = "ended" /\ ex_ended' = PollRaises(cancel_event)
       ELSE ex_pc' = "process" /\ UNCHANGED ex_ended
    /\ UNCHANGED <<ex_blocks, cancel_event, ex_idx, ex_doc, ex_callback, ex_saved, uiVars, notExport>>

\* self._process_block(block_type, content) inside the try of convert_text
EX_ProcessBlock ==
    /\ ex_pc = "process"
    /\ \E transpile \in TranspileRaises, rewrite \in RewriteRaises, other \in BlockRaises :
          LET kind == ex_blocks[ex_idx]
              r == _process_block(kind, transpile, rewrite, other)
          IN /\ kind = "paragraph" => transpile = "none" /\ rewrite = "none"
             /\ ex_log' = Append(ex_log, LogEntry("block", ex_idx, cancel_event = "set", kind,
                                                 transpile, rewrite, other, r.raised))
             /\ ex_doc' = Append(ex_doc, [idx |-> ex_idx, runs |-> r.runs])
             /\ IF r.raised = "none"
                THEN ex_pc' = "poll" /\ ex_idx' = ex_idx + 1 /\ UNCHANGED ex_ended
                ELSE ex_pc' = "ended" /\ ex_ended' = Reraise(r.raised) /\ UNCHANGED ex_idx
    /\ UNCHANGED <<ex_blocks, cancel_event, ex_callback, ex_saved, uiVars, notExport>>

\* return self.doc
EX_Return ==
    /\ ex_pc = "poll"
    /\ ex_idx > Len(ex_blocks)
    /\ ex_pc' = "ended"
    /\ ex_ended' = "none"
    /\ UNCHANGED <<ex_blocks, cancel_event, ex_idx, ex_doc, ex_log, ex_callback, ex_saved, uiVars, notExport>>

\* do_export_for_app.convert: save after a conversion that returned, then
\* schedule the callback for how the run ended
EX_Report ==
    /\ ex_pc = "ended"
    /\ \E save \in {"none", "OSError"} :
          /\ ex_ended # "none" => save = "none"
          /\ ex_callback' = CallbackFor(IF ex_ended = "none" THEN save ELSE ex_ended)
          /\ ex_saved' = IF ex_ended # "none" THEN "no"
                          ELSE IF save = "none" THEN "saved" ELSE "failed"
    /\ ex_pc' = "reported"
    /\ UNCHANGED <<ex_blocks, cancel_event, ex_idx, ex_doc, ex_log, ex_ended, uiVars, notExport>>

NextExport == SetCancel \/ EX_Poll \/ EX_ProcessBlock \/ EX_Return \/ EX_Report

SpecExport == InitExport /\ [][NextExport]_vars

(***************************************************************************)
(* SpecAlign: both table parsers applied to the separator row of a table   *)
(***************************************************************************)
InitAlign ==
    /\ sep_line \in SepInputs
    /\ pt_alignments = NoAlignments
    /\ th_alignments = NoAlignments
    /\ NormIdle /\ SplitIdle /\ CellsIdle /\ InlineIdle /\ MathIdle /\ ExportIdle
    /\ LatexIdle /\ TableIdle

ParseTableAlignments ==
    /\ pt_alignments = NoAlignments
    /\ pt_alignments' = parse_table_alignments(sep_line)
    /\ UNCHANGED <<sep_line, th_alignments, notAlign>>

HandlerParseAlignments ==
    /\ th_alignments = NoAlignments
    /\ th_alignments' = _parse_alignments(sep_line)
    /\ UNCHANGED <<sep_line, pt_alignments, notAlign>>

NextAlign == ParseTableAlignments \/ HandlerParseAlignments

SpecAlign == InitAlign /\ [][NextAlign]_vars

(***************************************************************************)
(* SpecLatex: convert_latex_delimiters applied to a text and to its output *)
(***************************************************************************)
InitLatex ==
    /\ latex_text \in LatexInputs
    /\ lpc = "start"
    /\ latex1 = Unset
    /\ latex2 = Unset
    /\ NormIdle /\ SplitIdle /\ CellsIdle /\ InlineIdle /\ MathIdle /\ ExportIdle
    /\ AlignIdle /\ TableIdle

\* markdown_text = convert_latex_delimiters(markdown_text)
ConvertLatex ==
    /\ lpc = "start"
    /\ latex1' = convert_latex_delimiters(latex_text)
    /\ lpc' = "once"
    /\ UNCHANGED <<latex_text, latex2, notLatex>>

\* convert_latex_delimiters applied to its own output
ReconvertLatex ==
    /\ lpc = "once"
    /\ latex2' = convert_latex_delimiters(latex1)
    /\ lpc' = "twice"
    /\ UNCHANGED <<latex_text, latex1, notLatex>>

NextLatex == ConvertLatex \/ ReconvertLatex

SpecLatex == InitLatex /\ [][NextLatex]_vars

(***************************************************************************)
(* SpecTable: a table block is extracted at the line where the table       *)
(* trigger fires, added to the document, and parsed by the preview         *)
(***************************************************************************)
InitTable ==
    /\ tb_lines \in TableInputs
    /\ tb_pc = "start"
    /\ tb_content = <<>>
    /\ tb_doc = <<>>
    /\ th_table = NoTable
    /\ pt_table = NoTable
    /\ NormIdle /\ SplitIdle /\ CellsIdle /\ InlineIdle /\ MathIdle /\ ExportIdle
    /\ AlignIdle /\ LatexIdle

\* block, i = self._extract_table(lines, i)
TB_Extract ==
    /\ tb_pc = "start"
    /\ tb_content' = _extract_table(tb_lines, 0).content
    /\ tb_pc' = "extracted"
    /\ UNCHANGED <<tb_lines, tb_doc, th_table, pt_table, notTable>>

\* self._process_block('table', content)
TB_Process ==
    /\ tb_pc = "extracted"
    /\ th_table' = parse_markdown_table(tb_content)
    /\ tb_doc' = ProcessTable(tb_content)
    /\ tb_pc' = "processed"
    /\ UNCHANGED <<tb_lines, tb_content, pt_table, notTable>>

\* headers, rows, alignments = parse_table(table_text) of the preview
TB_Preview ==
    /\ tb_pc = "processed"
    /\ pt_table' = parse_table(tb_content)
    /\ tb_pc' = "previewed"
    /\ UNCHANGED <<tb_lines, tb_content, tb_doc, th_table, notTable>>

NextTable == TB_Extract \/ TB_Process \/ TB_Preview

SpecTable == InitTable /\ [][NextTable]_vars

(***************************************************************************)
(* SpecRun: one export run of do_export_for_app.  The worker thread runs   *)
(* convert_text on the content (the preprocessing, _split_into_blocks, the *)
(* block loop), saves, and schedules a callback; the UI thread runs the    *)
(* callback.  The holder of the stored cancel event may set it meanwhile.  *)
(***************************************************************************)
ZeroWidth == {"ZWSP", "ZWNJ", "ZWJ", "BOM"}

\* re.sub(r'[\u200b\u200c\u200d\ufeff]', '', text)
clean_text(t) == SelectSeq(t, LAMBDA c : c \notin ZeroWidth)

\* the preprocessing of convert_text
Preprocess(markdown_text) ==
    normalize_markdown(convert_latex_delimiters(clean_text(markdown_text)))

\* one line for every kind of block, a line of two formulas in both notations
RunLineSet ==
    { <<"a">>, <<"ZWSP", "a">>, <<"#", " ", "T">>, <<BT, BT, BT>>,
      <<"|", "a", "|">>, <<"|", "-", "|">>, <<"$", "$", "x", "$", "$">>,
      <<"$", "$", "x", "$", "$", "$", "$", "y", "$", "$">>,
      <<BS, "[", "x", BS, "]", BS, "[", "y", BS, "]">>,
      <<">", "q">>, <<"-", " ", "a">>, <<"1", ".", " ", "a">>, <<"-", "-", "-">>,
      <<"!", "[", "]", "(", "u", ")">> }

\* export_to_word_for_app refuses a content that is blank
RunInputs ==
    { t \in RunLineSet \cup { l1 \o <<NL>> \o l2 : l1 \in RunLineSet, l2 \in RunLineSet } :
        Strip(t) # <<>> }

\* the kind of block of the block loop's model for a block of the splitter
ExportKind(blk) == IF blk.type = "math_block" THEN "math_block" ELSE "paragraph"

InitRun ==
    /\ text \in RunInputs
    /\ pm_pc = "done" /\ pm_lines = <<>> /\ pm_i = 0 /\ pm_blocks = <<>> /\ pm_consumed = <<>>
    /\ sb_pc = "run" /\ sb_lines = Split(Preprocess(text), NL) /\ sb_i = 0
    /\ sb_blocks = <<>> /\ sb_consumed = <<>>
    /\ sb_origin = [k \in 1..Len(Split(Preprocess(text), NL)) |-> k]
    /\ ex_blocks = <<>> /\ cancel_event = "clear" /\ ex_pc = "split" /\ ex_idx = 1
    /\ ex_doc = <<>> /\ ex_log = <<>> /\ ex_ended = "running" /\ ex_callback = "none"
    /\ ex_saved = "no" /\ UiExporting
    /\ NormIdle /\ CellsIdle /\ InlineIdle /\ MathIdle
    /\ AlignIdle /\ LatexIdle /\ TableIdle

\* cancel_event.set() while _split_into_blocks runs
SetCancelEarly ==
    /\ ex_pc = "split"
    /\ cancel_event = "clear"
    /\ cancel_event' = "set"
    /\ UNCHANGED <<ex_blocks, ex_pc, ex_idx, ex_doc, ex_log, ex_ended, ex_callback, ex_saved,
                   uiVars, notExport>>

\* blocks = self._split_into_blocks(markdown_text) has returned
RUN_Blocks ==
    /\ ex_pc = "split"
    /\ sb_pc = "done"
    /\ ex_blocks' = [k \in 1..Len(sb_blocks) |-> ExportKind(sb_blocks[k])]
    /\ ex_pc' = "poll"
    /\ UNCHANGED <<cancel_event, ex_idx, ex_doc, ex_log, ex_ended, ex_callback, ex_saved,
                   uiVars, notExport>>

\* on_export_success_for_app, on_export_cancel_for_app, on_export_error_for_app,
\* run by the UI thread for the callback app.after scheduled
UI_Callback ==
    /\ ex_pc = "reported"
    /\ ex_callback # "none"
    /\ export_btn' = "normal"
    /\ cancel_export_btn' = "disabled"
    /\ _export_cancel_event' = None
    /\ ui_callbacks' = Append(ui_callbacks, ex_callback)
    /\ ex_pc' = "idle"
    /\ UNCHANGED <<ex_blocks, cancel_event, ex_idx, ex_doc, ex_log, ex_ended, ex_callback,
                   ex_saved, notExport>>

NextRun ==
    \/ SB_BlankLine \/ SB_CodeBlock \/ SB_TableBlock \/ SB_MathBlock \/ SB_HeadingLine
    \/ SB_QuoteBlock \/ SB_BulletList \/ SB_NumberList \/ SB_HrLine \/ SB_ImageLine
    \/ SB_ParagraphBlock \/ SB_Return
    \/ RUN_Blocks \/ EX_Poll \/ EX_ProcessBlock \/ EX_Return \/ EX_Report
    \/ UI_Callback \/ SetCancel \/ SetCancelEarly

\* the worker thread inside _split_into_blocks
SplitterSteps ==
    \/ SB_BlankLine \/ SB_CodeBlock \/ SB_TableBlock \/ SB_MathBlock \/ SB_HeadingLine
    \/ SB_QuoteBlock \/ SB_BulletList \/ SB_NumberList \/ SB_HrLine \/ SB_ImageLine
    \/ SB_ParagraphBlock \/ SB_Return

\* the worker thread after _split_into_blocks
ConvertSteps == RUN_Blocks \/ EX_Poll \/ EX_ProcessBlock \/ EX_Return \/ EX_Report

SpecRun == InitRun /\ [][NextRun]_vars

\* ENABLED SplitterSteps: a trigger fires on every line
SplitterCanStep ==
    sb_pc = "run" /\ (sb_i >= Len(sb_lines) \/ Len(sb_blocks) < MaxBlocks)

\* WF_vars(SplitterSteps)
SplitterFair == []<>(~SplitterCanStep) \/ []<><<SplitterSteps>>_vars

\* the worker thread and the event loop of the UI thread keep running; nobody
\* has to cancel
SpecRunLive == SpecRun /\ SplitterFair /\ WF_vars(ConvertSteps) /\ WF_vars(UI_Callback)
(***************************************************************************)
(* Claims                                                                  *)
(***************************************************************************)
NonBlankLines(t) == SelectSeq(Split(t, NL), LAMBDA l : Strip(l) # <<>>)

\* C1: normalize_markdown is idempotent: normalizing its own output changes nothing.
C1_Idempotent == npc = "twice" => norm2 = norm1

\* an input where the first pass inserted a blank line and the second pass ran
C1_Witness == npc = "twice" /\ Len(norm1) > Len(md_text)

\* C2: without carriage returns, the non-blank lines of the output are exactly
\* the non-blank lines of the input, in order and unchanged.
C2_NonBlankPreserved ==
    (npc \in {"once", "twice"} /\ ~Contains(md_text, CR))
        => NonBlankLines(norm1) = NonBlankLines(md_text)

\* an input without carriage return, of two or more non-blank lines, that the pass changed
C2_Witness ==
    /\ npc \in {"once", "twice"}
    /\ ~Contains(md_text, CR)
    /\ norm1 # md_text
    /\ Len(NonBlankLines(md_text)) >= 2

InputLines == Split(text, NL)

\* the concatenation of a sequence of sequences
RECURSIVE Flatten(_)
Flatten(ss) == IF ss = <<>> THEN <<>> ELSE Head(ss) \o Flatten(Tail(ss))

StrictlyIncreasing(s) == \A k \in 1..(Len(s) - 1) : s[k] < s[k + 1]

NonDecreasing(s) == \A k \in 1..(Len(s) - 1) : s[k] <= s[k + 1]

Elems(s) == { s[k] : k \in 1..Len(s) }

NonBlankNumbers(ls) == { k \in 1..Len(ls) : Strip(ls[k]) # <<>> }

\* every code fence line and every bare $$ line has its partner
BalancedFences(t) ==
    /\ Len(SelectSeq(Split(t, NL), LAMBDA l : StartsWith(Strip(l), Fence))) % 2 = 0
    /\ Len(SelectSeq(Split(t, NL), LAMBDA l : Strip(l) = Dollars)) % 2 = 0

\* C3 for parse_markdown: the lines consumed by the blocks are distinct input
\* lines in input order, and a finished scan has consumed every non-blank line
C3_PM ==
    /\ StrictlyIncreasing(Flatten(pm_consumed))
    /\ pm_pc = "done" => NonBlankNumbers(InputLines) \subseteq Elems(Flatten(pm_consumed))

\* C3 for _split_into_blocks, with the start_line of the blocks
C3_SB ==
    /\ StrictlyIncreasing(Flatten(sb_consumed))
    /\ NonDecreasing([k \in 1..Len(sb_blocks) |-> sb_blocks[k].start_line])
    /\ sb_pc = "done" => NonBlankNumbers(InputLines) \subseteq Elems(Flatten(sb_consumed))

\* C3: for every input with balanced fences the Block Splitter consumes every
\* non-blank input line in exactly one block, in input order, and the
\* start_line values of the blocks never decrease.
C3_Partition == BalancedFences(text) => (C3_PM /\ C3_SB)

PMMath(f) == PMBlock("math_block", f, 0, <<>>)

IsPrefix(s, t) == Len(s) <= Len(t) /\ s = SubSeq(t, 1, Len(s))

\* C4 for parse_markdown on the line $$f1$$...$$fk$$
C4_PM(fs) ==
    /\ IsPrefix(pm_blocks, [k \in 1..Len(fs) |-> PMMath(fs[k])])
    /\ pm_pc = "done" => Len(pm_blocks) = Len(fs)

\* C4 for _split_into_blocks on the line $$f1$$...$$fk$$
C4_SB(fs) ==
    /\ Len(sb_blocks) <= Len(fs)
    /\ \A k \in 1..Len(sb_blocks) :
          sb_blocks[k].type = "math_block" /\ sb_blocks[k].content = fs[k]
    /\ sb_pc = "done" => Len(sb_blocks) = Len(fs)

\* C4: a line of k concatenated single-line formulas yields exactly the k
\* math blocks f1..fk, in order, none dropped, merged or repeated, in
\* parse_markdown and in _split_into_blocks.
C4_FormulaBlocks ==
    \A fs \in FormulaSeqs : text = FormulaLine(fs) => (C4_PM(fs) /\ C4_SB(fs))

\* the first input line opens a code fence and no later line can close it
UnterminatedCode(ls) ==
    /\ ls # <<>>
    /\ StartsWith(Strip(ls[1]), Fence)
    /\ \A k \in 2..Len(ls) : ~StartsWith(Strip(ls[k]), Fence)

\* the first input line opens a multi-line formula and no later line closes it
UnterminatedMath(ls) ==
    /\ ls # <<>>
    /\ StartsWith(Strip(ls[1]), Dollars)
    /\ SingleMathEnd(Strip(ls[1])) = 0
    /\ \A k \in 2..Len(ls) : ~EndsWith(Strip(ls[k]), Dollars)

\* every line that follows the first one, joined as the splitters join them
Following(ls) == Join(Tail(ls), <<NL>>)

FenceLanguage(ls) == Strip(From(Strip(ls[1]), 3))

\* parse_markdown on an unterminated fence: one block holding every following
\* line, after which the scan is at the end of the input and returns
C10_PM ==
    /\ (UnterminatedCode(InputLines) /\ pm_blocks # <<>>) =>
          /\ pm_blocks =
               <<PMBlock("code_block", Following(InputLines), 0, FenceLanguage(InputLines))>>
          /\ pm_i >= Len(pm_lines)
    /\ (UnterminatedMath(InputLines) /\ pm_blocks # <<>>) =>
          /\ pm_blocks = <<PMMath(Following(InputLines))>>
          /\ pm_i >= Len(pm_lines)
    /\ (UnterminatedCode(InputLines) \/ UnterminatedMath(InputLines)) => pm_pc # "diverged"

\* _split_into_blocks on an unterminated code fence
C10_SBCode ==
    (UnterminatedCode(InputLines) /\ sb_blocks # <<>>) =>
       /\ sb_blocks =
            <<SBBlock("code", [language |-> FenceLanguage(InputLines),
                               code |-> Following(InputLines)], 1)>>
       /\ sb_i >= Len(sb_lines)

SBMathFence(ls) == UnterminatedMath(ls) /\ SB_Trigger(ls, 0) = "math"

RECURSIVE BackslashesBefore(_, _)
BackslashesBefore(line, i) ==
    IF i > 0 /\ At(line, i - 1) = BS THEN 1 + BackslashesBefore(line, i - 1) ELSE 0

\* the backslash before position i is not itself escaped by a backslash
AfterUnescapedBackslash(line, i) == BackslashesBefore(line, i) % 2 = 1

\* the cells of the scan the claim describes
RECURSIVE ClaimedCells(_, _, _, _)
ClaimedCells(line, i, done, cell) ==
    IF i >= Len(line)
    THEN IF cell # <<>> \/ done # <<>> THEN Append(done, Strip(cell)) ELSE done
    ELSE IF At(line, i) = "|" /\ AfterUnescapedBackslash(line, i)
    THEN ClaimedCells(line, i + 1, done, [cell EXCEPT ![Len(cell)] = "|"])
    ELSE IF At(line, i) = "|"
    THEN ClaimedCells(line, i + 1, Append(done, Strip(cell)), <<>>)
    ELSE ClaimedCells(line, i + 1, done, Append(cell, At(line, i)))

\* C5: a pipe right after an unescaped backslash is a literal pipe and the
\* backslash is dropped, every other pipe ends a cell, and the cells are
\* returned trimmed and in order; "a \| b | c" gives "a | b", "c"
C5_CellScanner ==
    cells # NoCells =>
        /\ cells = ClaimedCells(row, 0, <<>>, <<>>)
        /\ row = <<"a", " ", BS, "|", " ", "b", " ", "|", " ", "c">> =>
               cells = << <<"a", " ", "|", " ", "b">>, <<"c">> >>

(***************************************************************************)
(* C6: the inline tokenizer                                                *)
(***************************************************************************)
\* what is left of a match once the markers of the alternative that matched
\* (and the URL of a link or an image) are taken away
SemanticOf(t, m) ==
    LET full_match == Slice(t, m.start, m.end)
    IN CASE m.rule = 1 -> Slice(full_match, 3, IndexFrom(full_match, "]", 3) - 1)
         [] m.rule = 2 -> Slice(full_match, 2, IndexFrom(full_match, "]", 2) - 1)
         [] m.rule \in {3, 4, 12, 13} -> Inner(full_match, 1, 1)
         [] m.rule = 5 -> <<NL>>
         [] m.rule \in {6, 7} -> Inner(full_match, 5, 6)
         [] m.rule \in {8, 9} -> Inner(full_match, 3, 3)
         [] m.rule \in {10, 11, 14} -> Inner(full_match, 2, 2)

\* the text between the matches and the text kept of each match, in order
RECURSIVE SemanticText(_, _, _)
SemanticText(t, matches, last_end) ==
    IF matches = <<>> THEN From(t, last_end)
    ELSE LET m == Head(matches)
         IN Slice(t, last_end + 1, m.start - 1) \o SemanticOf(t, m)
            \o SemanticText(t, Tail(matches), m.end)

ContentOf(es) == Concat([k \in 1..Len(es) |-> es[k].content])

\* C6: the contents of the elements parse_inline returns, concatenated in
\* order, are the input without its matched markers and URLs
C6_NoTextLost ==
    elements # NoElements =>
        ContentOf(elements) = SemanticText(inline_text, FindIter(inline_text, 1), 0)

(***************************************************************************)
(* C7, C8: the block loop of convert_text                                  *)
(***************************************************************************)
LastEntry == ex_log[Len(ex_log)]

\* C7: whatever a formula stage raises, the formula falls back to an italic
\* run of its LaTeX and the block is processed without an exception
C7_FormulaFailureContained ==
    \A j \in 1..Len(ex_log) :
        LET e == ex_log[j]
        IN (e.ev = "block" /\ e.other = "none"
              /\ (e.transpile # "none" \/ e.rewrite # "none"))
           => /\ e.raised = "none"
              /\ \E k \in 1..Len(ex_doc[e.idx].runs) : ex_doc[e.idx].runs[k] = "italic_latex"

\* C8: the event is polled once before each block and only there; a poll
\* that finds it set is the last thing the loop does and ends the call with
\* ExportCancelled; a block whose poll found it clear is processed to its
\* end whatever happens to the event meanwhile; an exception of a block ends
\* the call with ConversionError; the callback tells the two apart
C8_Cancellation ==
    /\ \A j \in 1..Len(ex_log) :
          LET e == ex_log[j]
          IN /\ (e.ev = "poll" /\ e.set) => j = Len(ex_log) /\ ex_ended = "ExportCancelled"
             /\ (e.ev = "poll" /\ ~e.set /\ j < Len(ex_log)) =>
                    ex_log[j + 1].ev = "block" /\ ex_log[j + 1].idx = e.idx
             /\ e.ev = "block" =>
                    /\ j > 1
                    /\ ex_log[j - 1].ev = "poll" /\ ex_log[j - 1].idx = e.idx
                    /\ ~ex_log[j - 1].set
             /\ (e.ev = "block" /\ e.raised # "none") =>
                    j = Len(ex_log) /\ ex_ended = "ConversionError"
    /\ ex_ended = "ExportCancelled" =>
          Len(ex_log) > 0 /\ LastEntry.ev = "poll" /\ LastEntry.set
    /\ ex_ended = "ConversionError" =>
          Len(ex_log) > 0 /\ LastEntry.ev = "block" /\ LastEntry.raised # "none"
    /\ ex_pc = "reported" => (ex_callback = "cancel" <=> ex_ended = "ExportCancelled")
    /\ (ex_pc = "reported" /\ ex_ended = "ConversionError") => ex_callback = "error"

\* the event was set while a block was being processed: the block was
\* finished, the next poll raised, and the cancel callback was scheduled
C8_Witness ==
    /\ ex_pc = "reported" /\ ex_callback = "cancel"
    /\ \E j \in 1..Len(ex_log) : ex_log[j].ev = "block" /\ ex_log[j].set

(***************************************************************************)
(* C9: the math rewrite                                                    *)
(***************************************************************************)
RECURSIVE LeafTexts(_)
RECURSIVE LeafTextsOf(_)
LeafTextsOf(kids) == IF kids = <<>> THEN <<>> ELSE LeafTexts(Head(kids)) \o LeafTextsOf(Tail(kids))

\* the texts of the leaves of a MathML tree, in document order
LeafTexts(node) ==
    IF node.kids = <<>> THEN (IF node.text # "" THEN <<node.text>> ELSE <<>>)
    ELSE LeafTextsOf(node.kids)

RECURSIVE OutTexts(_)
RECURSIVE OutTextsOf(_)
OutTextsOf(kids) == IF kids = <<>> THEN <<>> ELSE OutTexts(Head(kids)) \o OutTextsOf(Tail(kids))

\* the texts of an OMML tree: the text of its nodes and the characters of its m:chr nodes
OutTexts(node) ==
    (IF node.text # "" THEN <<node.text>> ELSE <<>>)
    \o (IF node.tag = "chr" THEN <<node.val>> ELSE <<>>)
    \o OutTextsOf(node.kids)

Count(seq, S) == Cardinality({k \in 1..Len(seq) : seq[k] \in S})

\* C9: every leaf text of the MathML tree is in the OMML tree, as often as
\* it is in the input
C9_NoContentDropped ==
    omml # NoOmml =>
        \A k \in 1..Len(LeafTexts(mathml_tree)) :
            LET s == LeafTexts(mathml_tree)[k]
            IN Count(LeafTexts(mathml_tree), {s}) <= Count(OutTexts(omml), {s, _decode_text(s)})

(***************************************************************************)
(* C11: heading lines                                                      *)
(***************************************************************************)
\* the line the splitter is at starts with a hash sign
PMAtHeading == PM_Running /\ StartsWith(At(pm_lines, pm_i), <<"#">>)

SBAtHeading == SB_Running /\ StartsWith(At(sb_lines, sb_i), <<"#">>)

HashRun(line) == RunLen(line, {"#"})

\* the table trigger: the line has a pipe and the next line is a separator row
HeadsTable(lines, i) ==
    Contains(At(lines, i), "|") /\ i + 1 < Len(lines) /\ IsSepRow(At(lines, i + 1))

\* the step of parse_markdown appends the heading of the line it is at
PMHeadingStep ==
    LET line == At(pm_lines, pm_i)
    IN /\ pm_blocks' = Append(pm_blocks,
                              PMBlock("heading", Strip(From(line, HashRun(line))),
                                      IF HashRun(line) > 4 THEN 4 ELSE HashRun(line), <<>>))
       /\ pm_i' = pm_i + 1

\* the step of _split_into_blocks appends the heading of the line it is at
SBHeadingStep ==
    LET line == At(sb_lines, sb_i)
        n == IF HashRun(line) > 6 THEN 6 ELSE HashRun(line)
    IN /\ Len(sb_blocks') = Len(sb_blocks) + 1
       /\ sb_blocks'[Len(sb_blocks')].type
            = <<"heading_1", "heading_2", "heading_3",
                "heading_4", "heading_5", "heading_6">>[n]
       /\ sb_blocks'[Len(sb_blocks')].content = Strip(From(line, HashRun(line)))
       /\ sb_i' = sb_i + 1

IndentLevel(n) == RunLen(InputLines[n], SpaceChars) \div 2

IsListLine(line) == IsBulletItem(line) \/ IsNumberItem(line)

\* the line after the last line of a block is not a list line of the syntax of that last line
ListRunEnds(consumed) ==
    LET last == consumed[Len(consumed)]
    IN last < Len(InputLines) =>
          ~\/ IsBulletItem(InputLines[last]) /\ IsBulletItem(InputLines[last + 1])
           \/ IsNumberItem(InputLines[last]) /\ IsNumberItem(InputLines[last + 1])

\* item.get('level', 0): the level the consumers of parse_markdown read
ItemLevel(item) == IF item.has_level THEN item.level ELSE 0

C12_PM ==
    \A b \in 1..Len(pm_blocks) :
        pm_blocks[b].type = "list" =>
            /\ Len(pm_blocks[b].content) = Len(pm_consumed[b])
            /\ \A k \in 1..Len(pm_consumed[b]) :
                  ItemLevel(pm_blocks[b].content[k]) = IndentLevel(pm_consumed[b][k])
            /\ ListRunEnds(pm_consumed[b])

C12_SB ==
    \A b \in 1..Len(sb_blocks) :
        sb_blocks[b].type \in {"bullet_list", "numbered_list"} =>
            /\ Len(sb_blocks[b].content) = Len(sb_consumed[b])
            /\ \A k \in 1..Len(sb_consumed[b]) :
                  sb_blocks[b].content[k].level = IndentLevel(sb_consumed[b][k])
            /\ ListRunEnds(sb_consumed[b])

\* C12: every item of a list block, ordered or unordered, carries the level
\* indent width / 2 of its line, and a run of list lines of any indentation
\* is one list block
C12_ListLevels ==
    (\A n \in 1..Len(InputLines) : IsListLine(InputLines[n]) \/ Strip(InputLines[n]) = <<>>)
        => C12_PM /\ C12_SB

(***************************************************************************)
(* C13: nested emphasis                                                    *)
(***************************************************************************)
NestedBold == Concat(<<Star2, <<"_", "x", "_">>, Star2>>)

\* the elements that come from a match, in order
Spans(es) == SelectSeq(es, LAMBDA e : e.type # "text")

\* the inner text of every bold element is the text between the two-character
\* markers of its match, as it is in the input
BoldIsRaw(t, es) ==
    LET ms == FindIter(t, 1)
    IN /\ Len(Spans(es)) = Len(ms)
       /\ \A k \in 1..Len(ms) :
             Spans(es)[k].type = "bold" =>
                 Spans(es)[k].content = Slice(t, ms[k].start + 2, ms[k].end - 2)

\* C13: "**_x_**" is one bold element with content "_x_", which tokenizes to
\* one italic element "x"; the content of a bold element is its inner text,
\* not expanded
C13_NestedEmphasis ==
    elements # NoElements =>
        /\ BoldIsRaw(inline_text, elements)
        /\ inline_text = NestedBold =>
              /\ elements = <<InlineElement("bold", <<"_", "x", "_">>, None)>>
              /\ parse_inline(elements[1].content) = <<InlineElement("italic", <<"x">>, None)>>

C13_Witness ==
    /\ inline_text = NestedBold
    /\ Len(elements) = 1 /\ elements[1].type = "bold"

(***************************************************************************)
(* C14: one list syntax per list block                                     *)
(***************************************************************************)
\* the input lines a block consumed are all unordered or all ordered list lines
OneSyntax(consumed) ==
    \/ \A k \in 1..Len(consumed) : IsBulletItem(InputLines[consumed[k]])
    \/ \A k \in 1..Len(consumed) : IsNumberItem(InputLines[consumed[k]])

C14_PM == \A b \in 1..Len(pm_blocks) : pm_blocks[b].type = "list" => OneSyntax(pm_consumed[b])

C14_SB ==
    \A b \in 1..Len(sb_blocks) :
        sb_blocks[b].type \in {"bullet_list", "numbered_list"} => OneSyntax(sb_consumed[b])

\* C14: the items of a list block come from lines of one list syntax; a line
\* of the other syntax ends the block and starts a new one
C14_Homogeneous ==
    (\A n \in 1..Len(InputLines) : IsListLine(InputLines[n]) \/ Strip(InputLines[n]) = <<>>)
        => C14_PM /\ C14_SB

(***************************************************************************)
(* C15: one alignment policy for the separator row                         *)
(***************************************************************************)
\* the policy of the claim: both ends center, trailing right, otherwise left
AlignPolicy(cell) ==
    IF StartsWith(cell, <<":">>) /\ EndsWith(cell, <<":">>) THEN "center"
    ELSE IF EndsWith(cell, <<":">>) THEN "right"
    ELSE "left"

PolicyOf(cs) == [k \in 1..Len(cs) |-> AlignPolicy(Strip(cs[k]))]

C15_PT == pt_alignments # NoAlignments => pt_alignments = PolicyOf(align_cells(sep_line))

C15_TH == th_alignments # NoAlignments => th_alignments = PolicyOf(_parse_row(sep_line))

\* C15: parse_table and TableHandler._parse_alignments both map every cell of
\* the separator row by the one policy center / right / left, left by default
C15_OnePolicy == C15_PT /\ C15_TH

(***************************************************************************)
(* C16: the two splitters agree                                            *)
(***************************************************************************)
\* the kind of a block of parse_markdown, in the words of _split_into_blocks
PMKind(b) ==
    IF b.type = "code_block" THEN "code"
    ELSE IF b.type = "list" THEN (IF b.level = 1 THEN "numbered_list" ELSE "bullet_list")
    ELSE b.type

Range6Headings == {"heading_1", "heading_2", "heading_3", "heading_4", "heading_5", "heading_6"}

\* the kind of a block of _split_into_blocks, without the heading level
SBKind(b) == IF b.type \in Range6Headings THEN "heading" ELSE b.type

Normalized == normalize_markdown(text) = text

BothReturned == pm_pc = "done" /\ sb_pc = "done"

SameBlocks ==
    /\ Len(pm_blocks) = Len(sb_blocks)
    /\ \A b \in 1..Len(pm_blocks) :
        b <= Len(sb_blocks) =>
            /\ PMKind(pm_blocks[b]) = SBKind(sb_blocks[b])
            /\ pm_consumed[b] = sb_consumed[b]

\* C16: on a normalized input parse_markdown and _split_into_blocks return
\* the same sequence of blocks: same kinds, same consumed lines
C16_SameSplit == (Normalized /\ BothReturned) => SameBlocks

(***************************************************************************)
(* C17: headings are set off by blank lines                                *)
(***************************************************************************)
OutLines == Split(norm1, NL)

IsBlank(line) == Strip(line) = <<>>

\* the heading at line k of ls has a blank line, or nothing, after it, and a
\* blank line, a heading, or nothing, before it
HeadingSetOff(ls, k) ==
    /\ k < Len(ls) => IsBlank(ls[k + 1])
    /\ k > 1 => IsBlank(ls[k - 1]) \/ IsHeadingLine(ls[k - 1])

SegTarget(g) ==
    IF g.kind = "inline" THEN <<"$">> \o g.body \o <<"$">>
    ELSE IF g.kind = "block" THEN <<"$", "$">> \o g.body \o <<"$", "$">>
    ELSE g.body

\* the texts written as plain text and formulas, each with its claimed output
ClaimedPairs ==
    { <<SegText(segs), Join([k \in 1..Len(segs) |-> SegTarget(segs[k])], <<>>)>> :
        segs \in LatexSegSeqs }

C18_Rewritten ==
    lpc \in {"once", "twice"} =>
        \A p \in ClaimedPairs : p[1] = latex_text => latex1 = p[2]

C18_Idempotent == lpc = "twice" => latex2 = latex1

\* C18: convert_latex_delimiters rewrites \(f\) to $f$ and \[f\] to $$f$$,
\* keeps f and the text outside the pairs, and changes nothing when applied
\* to its own output
C18_LatexDelimiters == C18_Rewritten /\ C18_Idempotent

(***************************************************************************)
(* C19: strikethrough                                                      *)
(***************************************************************************)
PlainChars == {"a", " "}

\* a text element for a non-empty text, nothing for the empty text
TextElements(t) == IF t = <<>> THEN <<>> ELSE <<InlineElement("text", t, None)>>

\* the text is pre ~~s~~ post, the first marker at i and the second at j, with
\* plain pre, post and non-empty s
StruckAt(t, i, j) ==
    /\ HasAt(t, i, Tilde2) /\ HasAt(t, j, Tilde2) /\ j >= i + 3
    /\ AllIn(Slice(t, 1, i - 1), PlainChars)
    /\ AllIn(Slice(t, i + 2, j - 1), PlainChars)
    /\ AllIn(Slice(t, j + 2, Len(t)), PlainChars)

\* C19: for plain text around ~~s~~ parse_inline returns a strikethrough
\* element with content s between text elements holding the text before and
\* after it
C19_Strikethrough ==
    elements # NoElements =>
        \A i \in 1..Len(inline_text) : \A j \in 1..Len(inline_text) :
            StruckAt(inline_text, i, j) =>
                elements = TextElements(Slice(inline_text, 1, i - 1))
                    \o <<InlineElement("strikethrough", Slice(inline_text, i + 2, j - 1), None)>>
                    \o TextElements(Slice(inline_text, j + 2, Len(inline_text)))

\* the text of the feature test: plain text, struck text, plain text
C19_Witness ==
    /\ inline_text = <<"a", " ">> \o Tilde2 \o <<"a", " ", "a">> \o Tilde2 \o <<" ", "a">>
    /\ Len(elements) = 3
    /\ elements[2] = InlineElement("strikethrough", <<"a", " ", "a">>, None)

(***************************************************************************)
(* C20: code fences are set off by blank lines                             *)
(***************************************************************************)
IsFence(line) == StartsWith(line, Fence)

\* line k of ls is a closing fence: an odd number of fence lines precede it
IsClosingFence(ls, k) == IsFence(ls[k]) /\ FenceParity(ls, k - 1)

IsOpeningFence(ls, k) == IsFence(ls[k]) /\ ~FenceParity(ls, k - 1)

C20_AfterClose ==
    \A k \in 1..(Len(OutLines) - 1) : IsClosingFence(OutLines, k) => IsBlank(OutLines[k + 1])

C20_BeforeOpen ==
    \A k \in 2..Len(OutLines) : IsOpeningFence(OutLines, k) => IsBlank(OutLines[k - 1])

\* C20: in the output of normalize_markdown a closing fence is followed by a
\* blank line or by nothing, and an opening fence is preceded by a blank line
\* or by nothing
C20_FencesSetOff == npc \in {"once", "twice"} => C20_AfterClose /\ C20_BeforeOpen

(***************************************************************************)
(* C21: lines of the same kind stay adjacent                               *)
(***************************************************************************)
NormInLines == Split(md_text, NL)

\* the kind normalize_markdown gives line k of ls
KindAt(ls, k) == _get_line_type(ls[k], FenceParity(ls, k - 1), FALSE)

\* the number of non-blank lines among the first k lines of ls
Rank(ls, k) == Cardinality({ n \in 1..k : ~IsBlank(ls[n]) })

\* the position in ls of its j-th non-blank line
PosOf(ls, j) == CHOOSE p \in 1..Len(ls) : ~IsBlank(ls[p]) /\ Rank(ls, p) = j

\* the input lines k and k + 1 are next to each other in the output
StayAdjacent(k) ==
    PosOf(OutLines, Rank(NormInLines, k + 1)) = PosOf(OutLines, Rank(NormInLines, k)) + 1

\* adjacent input lines that are both of kind kind stay adjacent
SameKindAdjacent(kind) ==
    (npc \in {"once", "twice"} /\ ~Contains(md_text, CR)) =>
        \A k \in 1..(Len(NormInLines) - 1) :
            (KindAt(NormInLines, k) = kind /\ KindAt(NormInLines, k + 1) = kind)
                => StayAdjacent(k)

\* C21: normalize_markdown inserts no blank line between two adjacent
\* headings, list items, quote lines or table rows
C21_SameKind ==
    /\ SameKindAdjacent("heading") /\ SameKindAdjacent("list")
    /\ SameKindAdjacent("quote") /\ SameKindAdjacent("table")

(***************************************************************************)
(* C22: the collapse of blank lines                                        *)
(***************************************************************************)
\* the lines of ls strictly between positions a and b are all empty
EmptyBetween(ls, a, b) == \A n \in (a + 1)..(b - 1) : ls[n] = <<>>

\* positions a < b of ls hold non-blank lines with only empty lines, n of
\* them, in between
EmptyRun(ls, a, b, n) ==
    /\ a \in 1..Len(ls) /\ b \in 1..Len(ls) /\ b = a + n + 1
    /\ ~IsBlank(ls[a]) /\ ~IsBlank(ls[b]) /\ EmptyBetween(ls, a, b)

\* the number of empty lines the output has between the input lines a and b
OutGap(a, b) ==
    PosOf(OutLines, Rank(NormInLines, b)) - PosOf(OutLines, Rank(NormInLines, a)) - 1

HasAt3NL(t) == \E k \in 1..(Len(t) - 2) : t[k] = NL /\ t[k + 1] = NL /\ t[k + 2] = NL

\* the statement as written: a run of two blank lines between two lines is
\* left as it is, and the output has no longer run
C22_Original ==
    (npc \in {"once", "twice"} /\ ~Contains(md_text, CR)) =>
        /\ \A a \in 1..Len(NormInLines) :
            EmptyRun(NormInLines, a, a + 3, 2) => OutGap(a, a + 3) = 2
        /\ ~HasAt3NL(norm1)

\* C22: the output of normalize_markdown has no three consecutive newline
\* characters; every run of one or more empty lines between two non-blank
\* lines of the input is exactly one empty line in the output
C22_Collapsed ==
    (npc \in {"once", "twice"} /\ ~Contains(md_text, CR)) =>
        /\ ~HasAt3NL(norm1)
        /\ \A a \in 1..Len(NormInLines) : \A n \in 1..Len(NormInLines) :
            EmptyRun(NormInLines, a, a + n + 1, n) => OutGap(a, a + n + 1) = 1

\* two empty lines between two text lines became one
C22_Witness ==
    /\ npc \in {"once", "twice"}
    /\ md_text = <<"a", NL, NL, NL, "a">>
    /\ norm1 = <<"a", NL, NL, "a">>

(***************************************************************************)
(* C23: one trigger order                                                  *)
(***************************************************************************)
TriggerOrder ==
    <<"blank", "code", "table", "math", "heading", "quote", "bullet", "number", "hr",
      "image", "paragraph">>

\* the triggers whose own condition holds on lines[i], whatever their place
\* in the if chain (the table condition is the splitter's: sep)
Firing(lines, i, sep) ==
    LET line == At(lines, i)
    IN { t \in Elems(TriggerOrder) :
           \/ t = "blank" /\ Strip(line) = <<>>
           \/ t = "code" /\ StartsWith(Strip(line), Fence)
           \/ t = "table" /\ Contains(line, "|") /\ i + 1 < Len(lines) /\ sep
           \/ t = "math" /\ StartsWith(Strip(line), Dollars)
           \/ t = "heading" /\ StartsWith(line, <<"#">>)
           \/ t = "quote" /\ StartsWith(line, <<">">>)
           \/ t = "bullet" /\ IsBulletItem(line)
           \/ t = "number" /\ IsNumberItem(line)
           \/ t = "hr" /\ IsHrLine(line)
           \/ t = "image" /\ ImageLineMatch(Strip(line)) # <<>>
           \/ t = "paragraph" }

\* the earliest trigger of the order among those of the set ts
Earliest(ts) ==
    TriggerOrder[CHOOSE k \in 1..Len(TriggerOrder) :
                    TriggerOrder[k] \in ts /\ \A m \in 1..(k - 1) : TriggerOrder[m] \notin ts]

PMFiring == Firing(pm_lines, pm_i, pm_i + 1 < Len(pm_lines) /\ IsSepRow(Strip(At(pm_lines, pm_i + 1))))

SBFiring == Firing(sb_lines, sb_i, sb_i + 1 < Len(sb_lines) /\ IsSepRow(At(sb_lines, sb_i + 1)))

\* the kind of block each trigger emits
PMTypeOf(t) ==
    CASE t = "code" -> "code_block" [] t = "math" -> "math_block"
      [] t \in {"bullet", "number"} -> "list" [] OTHER -> t

SBTypeOf(t) ==
    CASE t = "bullet" -> "bullet_list" [] t = "number" -> "numbered_list"
      [] t = "math" -> "math_block" [] OTHER -> t

\* a step of parse_markdown that appends a block appends the block of the
\* earliest firing trigger
PMOrderStep ==
    (pm_pc = "run" /\ pm_i < Len(pm_lines) /\ Len(pm_blocks') = Len(pm_blocks) + 1)
        => pm_blocks'[Len(pm_blocks')].type = PMTypeOf(Earliest(PMFiring))

SBOrderStep ==
    (sb_pc = "run" /\ sb_i < Len(sb_lines) /\ Len(sb_blocks') = Len(sb_blocks) + 1)
        => SBKind(sb_blocks'[Len(sb_blocks')]) = SBTypeOf(Earliest(SBFiring))

C23_PM == [][PMOrderStep]_vars

C23_SB == [][SBOrderStep]_vars

\* C23: in both splitters the block emitted at a position is the block of the
\* earliest trigger, in the order blank, fenced code, table, block math,
\* heading, quote, list, rule, image, paragraph, that fires there
C23_TriggerOrder == [][PMOrderStep /\ SBOrderStep]_vars

(***************************************************************************)
(* C24: a malformed table is not lost                                      *)
(***************************************************************************)
\* the extracted lines are no table: fewer than two non-blank lines
Unusable(content) == Len(TableTextLines(content)) < 2

C29_SameCells ==
    tb_pc = "previewed" =>
        th_table.headers = pt_table.headers /\ th_table.rows = pt_table.rows

(***************************************************************************)
(* C25: the element of a match is the element of the rule that matched     *)
(***************************************************************************)
\* the element of the claim for the text full_match matched by alternative rule
RuleElement(rule, full_match) ==
    CASE rule = 1 ->
           LET rb == IndexFrom(full_match, "]", 3)
           IN InlineElement("image", Slice(full_match, 3, rb - 1),
                            Slice(full_match, rb + 2, Len(full_match) - 1))
      [] rule = 2 ->
           LET rb == IndexFrom(full_match, "]", 2)
           IN InlineElement("link", Slice(full_match, 2, rb - 1),
                            Slice(full_match, rb + 2, Len(full_match) - 1))
      [] rule = 3 -> InlineElement("code", Inner(full_match, 1, 1), None)
      [] rule = 4 -> InlineElement("math", Inner(full_match, 1, 1), None)
      [] rule = 5 -> InlineElement("linebreak", <<NL>>, None)
      [] rule = 6 -> InlineElement("superscript", Inner(full_match, 5, 6), None)
      [] rule = 7 -> InlineElement("subscript", Inner(full_match, 5, 6), None)
      [] rule \in {8, 9} -> InlineElement("bold_italic", Inner(full_match, 3, 3), None)
      [] rule \in {10, 11} -> InlineElement("bold", Inner(full_match, 2, 2), None)
      [] rule \in {12, 13} -> InlineElement("italic", Inner(full_match, 1, 1), None)
      [] rule = 14 -> InlineElement("strikethrough", Inner(full_match, 2, 2), None)

\* the elements of the claim: text between the matches, and for every match
\* the element of its rule
RECURSIVE RuleLoop(_, _, _)
RuleLoop(t, matches, last_end) ==
    IF matches = <<>> THEN TextElements(From(t, last_end))
    ELSE LET m == Head(matches)
         IN TextElements(Slice(t, last_end + 1, m.start - 1))
                \o <<RuleElement(m.rule, Slice(t, m.start, m.end))>>
                \o RuleLoop(t, Tail(matches), m.end)

\* C25: every element parse_inline emits for a match has the kind of the
\* first alternative that matched there and that alternative's inner text
C25_RulePrecedence ==
    (elements # NoElements /\ FindIter(inline_text, 1) # <<>>) =>
        elements = RuleLoop(inline_text, FindIter(inline_text, 1), 0)

(***************************************************************************)
(* C26: every iteration of the splitters makes progress                    *)
(***************************************************************************)
\* from lines at index i to lines2 at index i2 the scan advanced, or stayed
\* on a line that became shorter in a list that did not grow
Progress(lines, i, lines2, i2) ==
    /\ Len(lines2) = Len(lines)
    /\ \/ i2 > i
       \/ i2 = i /\ Len(At(lines2, i)) < Len(At(lines, i))

\* an iteration of the while loop of parse_markdown
PMProgressStep ==
    (pm_pc = "run" /\ pm_i < Len(pm_lines) /\ pmVars' # pmVars)
        => pm_pc' = "run" /\ Progress(pm_lines, pm_i, pm_lines', pm_i')

\* an iteration of the while loop of _split_into_blocks
SBProgressStep ==
    (sb_pc = "run" /\ sb_i < Len(sb_lines) /\ sbVars' # sbVars)
        => sb_pc' = "run" /\ Progress(sb_lines, sb_i, sb_lines', sb_i')

C26_PM == [][PMProgressStep]_vars

C26_SB == [][SBProgressStep]_vars

\* C26: every iteration of the main loop of parse_markdown and of
\* _split_into_blocks advances the line index or shortens the pending line,
\* and the list of lines does not grow
C26_Terminates == [][PMProgressStep /\ SBProgressStep]_vars

(***************************************************************************)
(* C27: the normalizer does not split a block                              *)
(***************************************************************************)
NormalizedLines == Split(normalize_markdown(text), NL)

\* the input lines n and n + 1, both non-blank, are next to each other in the
\* normalized text
KeptTogether(n) ==
    PosOf(NormalizedLines, Rank(InputLines, n + 1))
        = PosOf(NormalizedLines, Rank(InputLines, n)) + 1

\* the lines a block consumed, where they are adjacent non-blank input lines,
\* are adjacent in the normalized text
Unsplit(consumed) ==
    \A k \in 1..(Len(consumed) - 1) :
        LET n == consumed[k]
        IN (consumed[k + 1] = n + 1 /\ n + 1 <= Len(InputLines)
              /\ ~IsBlank(InputLines[n]) /\ ~IsBlank(InputLines[n + 1]))
               => KeptTogether(n)

C27_PM == \A b \in 1..Len(pm_consumed) : Unsplit(pm_consumed[b])

C27_SB ==
    \A b \in 1..Len(sb_consumed) :
        sb_consumed[b] = [k \in 1..Len(sb_consumed[b]) |-> sb_consumed[b][1] + k - 1]
            => Unsplit(sb_consumed[b])

\* C27: normalize_markdown inserts no blank line between two adjacent lines
\* that parse_markdown or _split_into_blocks places in one block
C27_NoBlockSplit == C27_PM /\ C27_SB

\* the line that closes the formula opened on line i, len(lines) when none does
MathClose(lines, i) ==
    FirstFrom(lines, i + 1, {h \in 0..(Len(lines) - 1) : EndsWith(Strip(At(lines, h)), Dollars)})

\* line i opens a formula that a later line closes
MultiLineFormula(lines, i) ==
    /\ StartsWith(Strip(At(lines, i)), Dollars)
    /\ SingleMathEnd(Strip(At(lines, i))) = 0
    /\ MathClose(lines, i) < Len(lines)

\* the text between the opening '$$' of line i and the closing '$$'
BetweenDollars(lines, i) ==
    LET j == MathClose(lines, i)
        last == Strip(At(lines, j))
    IN Join(<<From(Strip(At(lines, i)), 2)>> \o Lines(lines, i + 1, j)
                \o <<Slice(last, 1, Len(last) - 2)>>, <<NL>>)

\* the math iteration of parse_markdown on a formula of several lines
PMMathStep ==
    (PM_Running /\ PM_Trigger(pm_lines, pm_i) = "math" /\ MultiLineFormula(pm_lines, pm_i)
        /\ pmVars' # pmVars)
        => Strip(pm_blocks'[Len(pm_blocks')].content) = Strip(BetweenDollars(pm_lines, pm_i))

\* the math iteration of _split_into_blocks on a formula of several lines
SBMathStep ==
    (sb_pc = "run" /\ sb_i < Len(sb_lines) /\ SB_Trigger(sb_lines, sb_i) = "math"
        /\ MultiLineFormula(sb_lines, sb_i) /\ sbVars' # sbVars)
        => Strip(sb_blocks'[Len(sb_blocks')].content) = Strip(BetweenDollars(sb_lines, sb_i))

C28_PM == [][PMMathStep]_vars

C28_SB == [][SBMathStep]_vars

\* C28: the content of a math block of several lines is all the text between
\* the opening '$$' and the closing '$$', the rest of both '$$' lines included
C28_MathContent == [][PMMathStep /\ SBMathStep]_vars

\* a line of the content holds more than one $$...$$ formula once preprocessed
SeveralFormulasOnALine ==
    \E k \in 1..Len(Split(Preprocess(text), NL)) :
        LET s == Strip(Split(Preprocess(text), NL)[k])
        IN SingleMathEnd(s) > 0 /\ StartsWith(Strip(From(s, SingleMathEnd(s))), Dollars)

\* at most one callback is run, and it is the one for how convert_text ended
OneCallback ==
    /\ Len(ui_callbacks) <= 1
    /\ ui_callbacks # <<>> => ui_callbacks[1] = CallbackFor(IF ex_saved = "failed" THEN "OSError" ELSE ex_ended)

\* save is reached only after convert_text has returned
SavedOnlyAfterReturn == ex_saved # "no" => ex_ended = "none"

\* after the callback the app is idle
IdleAfterCallback ==
    ui_callbacks # <<>> =>
        export_btn = "normal" /\ cancel_export_btn = "disabled" /\ _export_cancel_event = None

C30_Safety == OneCallback /\ SavedOnlyAfterReturn /\ IdleAfterCallback

\* a run on a content without such a line ends in a callback
C30_EndsOtherwise == ~SeveralFormulasOnALine => <>(ui_callbacks # <<>>)

=============================================================================
